---- MODULE Spec2Model ----
(***************************************************************************)
(* Push-notification integration layer: payload decoder, dispatch table,   *)
(* notification gateway, registration manager and update applier           *)
(* (src/libs/Notification/PushNotification).                               *)
(*                                                                         *)
(* One JavaScript task (a callback run to completion) is one action.  A    *)
(* promise is a call record's `promise` field; its identity is the index   *)
(* of the record in `calls`.                                               *)
(***************************************************************************)
EXTENDS Integers, Sequences, FiniteSets, TLC

VARIABLES
    notificationEventActionMap, \* index.native.ts:19, event type -> (notification type -> handler)
    listeners,                  \* Airship listeners added by init(), per event type
    foregroundDisplay,          \* Android foreground display predicate: "default", "show", "hide"
    namedUserId,                \* identity held by the Airship SDK, <<>> when reset
    namedUserReads,             \* register() calls whose getNamedUserId() has not answered yet,
                                \* as indices of registrations
    registrations,              \* history: every register() call and what it did to the SDK
    deregistrations,            \* history: every deregister() call, the state before and after
    pushNotificationID,         \* Onyx key NVP_PRIVATE_PUSH_NOTIFICATION_ID as last delivered to
                                \* the callback; <<>> before the first delivery
    lastUpdateIDStore,          \* Onyx key ONYX_UPDATES_LAST_UPDATE_ID_APPLIED_TO_CLIENT
    bridge,                     \* NativeModules.PushNotificationBridge of this build
    IS_HYBRID_APP,              \* CONFIG.IS_HYBRID_APP of this build
    hybridApp,                  \* the store's value of the HYBRID_APP key, <<>> while it has none
    isSingleNewDotEntry,        \* subscribeToPushNotifications.ts:93, <<>> while undefined
    navigationStack,            \* routes of the navigation collaborator, the active one last
    lastVisitedPath,            \* path last passed to updateLastVisitedPath, <<>> when none
    calls,                      \* every handler invocation, in order; index = promise identity
    deliveries,                 \* every SDK event delivered, with what each listener returned
    lastBound,                  \* history: the callback of the latest bind call per (event, type)
    shouldFailAllRequests,      \* HttpUtils: module flag set by the NETWORK key
    shouldForceOffline,         \* HttpUtils: module flag set by the NETWORK key
    controllers,                \* every AbortController created; controllers[i] = its signal is aborted
    abortControllerMap,         \* abort command -> index of the controller stored for it
    requests,                   \* every xhr() call, in order
    nIDChanges, nEvents, nBinds

httpVars == <<shouldFailAllRequests, shouldForceOffline, controllers, abortControllerMap, requests>>

navigatorVars == <<IS_HYBRID_APP, hybridApp, isSingleNewDotEntry, navigationStack, lastVisitedPath>>

vars == <<notificationEventActionMap, listeners, foregroundDisplay, namedUserId, namedUserReads,
          registrations, deregistrations, pushNotificationID, lastUpdateIDStore, bridge, navigatorVars, httpVars, calls, deliveries, lastBound, nIDChanges, nEvents, nBinds>>

\* everything but the HTTP wrapper's state
pushVars == <<notificationEventActionMap, listeners, foregroundDisplay, namedUserId, namedUserReads,
              registrations, deregistrations, pushNotificationID, lastUpdateIDStore, bridge,
              navigatorVars, calls, deliveries, lastBound, nIDChanges, nEvents, nBinds>>

(***************************************************************************)
(* Bounds of the exploration.                                              *)
(***************************************************************************)
MaxIDChanges == 2
MaxEvents == 1
MaxBinds == 1
MaxRequests == 1
MaxCancels == 2
MaxManagerCalls == 3

(***************************************************************************)
(* Values.  An optional value is a sequence of length at most one.         *)
(***************************************************************************)
None == <<>>
Some(v) == <<v>>

DEFAULT_NUMBER_ID == 0

PushReceived == "PushReceived"
NotificationResponse == "NotificationResponse"
EventType == {PushReceived, NotificationResponse}

REPORT_COMMENT == "reportComment"
REPORT_ACTION == "reportAction"
TRANSACTION == "transaction"
NotificationType == {REPORT_COMMENT, REPORT_ACTION, TRANSACTION}
\* a type value for which subscribeToPushNotifications binds nothing
OTHER_TYPE == "otherType"
PayloadTypes == NotificationType \cup {OTHER_TYPE}

AIRSHIP == "airship"

\* A notification ID is a string or a number; text is what toString() makes of it.
StringID(s) == [kind |-> "string", text |-> s]
NumberID(s) == [kind |-> "number", text |-> s]

\* notificationID.toString()
toString(notificationID) == notificationID.text

\* JavaScript truthiness of an ID: "" and 0 are falsy
TruthyID(id) == id.text # "" /\ id # NumberID("0")

\* A parsed JSON value.  Only an object carries fields; every field is optional.
JsonObject(type, reportID, lastUpdateID, previousUpdateID, hasPendingOnyxUpdates, onyxData) ==
    [json |-> "object", type |-> type, reportID |-> reportID, lastUpdateID |-> lastUpdateID,
     previousUpdateID |-> previousUpdateID, hasPendingOnyxUpdates |-> hasPendingOnyxUpdates,
     onyxData |-> onyxData]

JsonScalar(k) ==
    [json |-> k, type |-> None, reportID |-> None, lastUpdateID |-> None,
     previousUpdateID |-> None, hasPendingOnyxUpdates |-> None, onyxData |-> None]

JsonNull == JsonScalar("null")
JsonNumber == JsonScalar("number")

\* JavaScript truthiness of an optional number: absent and 0 are falsy.
TruthyNumber(opt) == opt # None /\ opt[1] # 0

\* JavaScript truthiness of a parsed value: undefined and null are falsy, an object
\* and a non-zero number are truthy.
TruthyJson(opt) == opt # None /\ opt[1].json # "null"

(***************************************************************************)
(* Raw payloads (extras.payload).  A string payload is described by what   *)
(* each stage of the decoder makes of it: atob, the gzip magic number,     *)
(* pako.inflate, JSON.parse of the inflated text, JSON.parse of the string *)
(* itself.                                                                 *)
(***************************************************************************)
UndefinedPayload ==
    [tag |-> "undefined", object |-> JsonNull, atob |-> "n/a", inflate |-> "n/a",
     inflatedJson |-> None, plainJson |-> None]

ObjectPayload(d) ==
    [tag |-> "object", object |-> d, atob |-> "n/a", inflate |-> "n/a",
     inflatedJson |-> None, plainJson |-> None]

\* atob: "throws" (not base64), "bytes" (decodes, no magic number), "gzip" (decodes to
\* bytes starting 0x1F 0x8B).  inflate: "throws" or "text".  inflatedJson / plainJson:
\* None when JSON.parse throws, else the parsed value.
StringPayload(atob, inflate, inflatedJson, plainJson) ==
    [tag |-> "string", object |-> JsonNull, atob |-> atob, inflate |-> inflate,
     inflatedJson |-> inflatedJson, plainJson |-> plainJson]

\* base64 of gzip of JSON text d; base64 text of a gzip stream is not JSON itself
GzipPayload(d) == StringPayload("gzip", "text", Some(d), None)
\* JSON text of an object: '{' and '"' are not base64 characters
PlainJsonPayload(d) == StringPayload("throws", "n/a", None, Some(d))
\* neither base64 nor JSON
GarbagePayload == StringPayload("throws", "n/a", None, None)
\* digits only, such as "1234": valid base64 without magic number, and a JSON number
DigitsPayload == StringPayload("bytes", "n/a", None, Some(JsonNumber))
\* magic number present, stream corrupt
CorruptGzipPayload == StringPayload("gzip", "throws", None, None)
\* inflates to text that is not JSON
GzipOfGarbagePayload == StringPayload("gzip", "text", None, None)
\* valid base64 without magic number, not JSON, such as "abcd"
Base64TextPayload == StringPayload("bytes", "n/a", None, None)
\* the text "null": valid base64 without magic number, and the JSON value null
NullTextPayload == StringPayload("bytes", "n/a", None, Some(JsonNull))

(***************************************************************************)
(* Payload Decoder.                                                        *)
(***************************************************************************)
\* the try block of the gzip path: None when any stage throws
GzipPath(payload) ==
    IF payload.atob = "throws" THEN None
    ELSE IF payload.atob # "gzip" THEN None
    ELSE IF payload.inflate # "text" THEN None
    ELSE payload.inflatedJson

\* the try block of the plain JSON path
PlainJsonPath(payload) == payload.plainJson

\* the stages the gzip try block runs, up to the one that throws
GzipStages(payload) ==
    IF payload.atob = "throws" THEN <<"atob">>
    ELSE IF payload.atob # "gzip" THEN <<"atob", "magic">>
    ELSE IF payload.inflate # "text" THEN <<"atob", "magic", "inflate">>
    ELSE <<"atob", "magic", "inflate", "JSON.parse(decompressed)">>

\* the two try blocks: the value returned and the stages run
DecodeString(payload) ==
    IF GzipPath(payload) # None
    THEN [value |-> GzipPath(payload), stages |-> GzipStages(payload)]
    ELSE IF PlainJsonPath(payload) # None
    THEN [value |-> PlainJsonPath(payload),
          stages |-> GzipStages(payload) \o <<"JSON.parse(payload)">>]
    ELSE [value |-> None, stages |-> GzipStages(payload) \o <<"JSON.parse(payload)">>]

\* a decoder without the undefined test: atob and JSON.parse convert undefined to the
\* text "undefined" and both throw
DecodeUndefinedAsString(payload) ==
    IF payload.tag = "undefined"
    THEN [value |-> None, stages |-> <<"atob", "JSON.parse(payload)">>]
    ELSE IF payload.tag # "string" THEN [value |-> Some(payload.object), stages |-> << >>]
    ELSE DecodeString(payload)

\* a decoder that fills in the default of hasPendingOnyxUpdates on an object payload
DecodeObjectWithDefaults(payload) ==
    IF payload.tag = "undefined" THEN [value |-> None, stages |-> << >>]
    ELSE IF payload.tag # "string"
    THEN [value |-> Some([payload.object EXCEPT
                             !.hasPendingOnyxUpdates = IF @ = None THEN Some(FALSE) ELSE @]),
          stages |-> << >>]
    ELSE DecodeString(payload)

\* a decoder that tries JSON.parse of the string before the gzip path
DecodePlainJsonFirst(payload) ==
    IF payload.tag = "undefined" THEN [value |-> None, stages |-> << >>]
    ELSE IF payload.tag # "string" THEN [value |-> Some(payload.object), stages |-> << >>]
    ELSE IF PlainJsonPath(payload) # None
    THEN [value |-> PlainJsonPath(payload), stages |-> <<"JSON.parse(payload)">>]
    ELSE [value |-> GzipPath(payload),
          stages |-> <<"JSON.parse(payload)">> \o GzipStages(payload)]

\* a decoder that hands the text on as data when neither path can parse it
DecodeKeepingText(payload) ==
    IF payload.tag = "undefined" THEN [value |-> None, stages |-> << >>]
    ELSE IF payload.tag # "string" THEN [value |-> Some(payload.object), stages |-> << >>]
    ELSE IF DecodeString(payload).value = None
    THEN [value |-> Some(JsonScalar("string")), stages |-> DecodeString(payload).stages]
    ELSE DecodeString(payload)

\* parsePushNotificationPayload with the stages it ran
Decode(payload) ==
    IF payload.tag = "undefined" THEN [value |-> None, stages |-> << >>]
    ELSE IF payload.tag # "string" THEN [value |-> Some(payload.object), stages |-> << >>]
    ELSE DecodeString(payload)

parsePushNotificationPayload(payload) == Decode(payload).value

(***************************************************************************)
(* Dispatch Table.                                                         *)
(***************************************************************************)
EmptyMap == << >>

\* notificationEventActionMap[eventType] ?? {}
ActionMapOf(map, eventType) == IF eventType \in DOMAIN map THEN map[eventType] ELSE EmptyMap

\* bind that starts a new action map on every call, dropping the event's other types
bindOverwritingEvent(map, triggerEvent, notificationType, callback) ==
    (triggerEvent :> (notificationType :> callback)) @@ map

bind(map, triggerEvent, notificationType, callback) ==
    LET actionMap == ActionMapOf(map, triggerEvent)
    IN  (triggerEvent :> ((notificationType :> callback) @@ actionMap)) @@ map

onReceived(map, notificationType, callback) == bind(map, PushReceived, notificationType, callback)

onSelected(map, notificationType, callback) == bind(map, NotificationResponse, notificationType, callback)

(***************************************************************************)
(* Notification Gateway.  The result of one listener invocation: whether a *)
(* handler is invoked, which, and with what data.                          *)
(***************************************************************************)
NoAction == [invoke |-> FALSE, action |-> "none", data |-> JsonNull]

\* lookup that falls back to a handler bound to the type under the other event
lookupAnyEvent(map, eventType, type) ==
    IF type \in DOMAIN ActionMapOf(map, eventType) THEN Some(ActionMapOf(map, eventType)[type])
    ELSE IF \E e \in DOMAIN map : type \in DOMAIN map[e]
         THEN Some(map[CHOOSE e \in DOMAIN map : type \in DOMAIN map[e]][type])
         ELSE None

\* const actionMap = notificationEventActionMap[eventType] ?? {}; actionMap[data.type]
lookup(map, eventType, type) ==
    IF type \in DOMAIN ActionMapOf(map, eventType) THEN Some(ActionMapOf(map, eventType)[type])
    ELSE None

pushNotificationEventCallback(map, eventType, payload) ==
    LET data == parsePushNotificationPayload(payload)
    IN  IF ~TruthyJson(data) THEN NoAction
        ELSE IF data[1].type = None THEN NoAction
        ELSE LET action == lookup(map, eventType, data[1].type[1])
             IN  IF action = None THEN NoAction
                 ELSE [invoke |-> TRUE, action |-> action[1], data |-> data[1]]

\* a dispatch that consumes the handler it invokes: the pair is unbound afterwards
DispatchConsumingHandler(map, eventType, payload) ==
    LET r == pushNotificationEventCallback(map, eventType, payload)
    IN  IF ~r.invoke THEN map
        ELSE LET t == r.data.type[1]
                 actionMap == ActionMapOf(map, eventType)
             IN  (eventType :> [k \in DOMAIN actionMap \ {t} |-> actionMap[k]]) @@ map

\* the table a dispatch leaves: pushNotificationEventCallback reads
\* notificationEventActionMap[eventType] and assigns nothing
DispatchTableAfter(map, eventType, payload) == map

(***************************************************************************)
(* Update Applier, synchronous part: the request built from the data, or   *)
(* None when the call abandons.                                            *)
(***************************************************************************)
\* destructuring default: hasPendingOnyxUpdates = false
HasPending(data) == data.hasPendingOnyxUpdates # None /\ data.hasPendingOnyxUpdates[1]

\* a pending request that also carries the inline fields
PendingRequestWithInlineData(data) ==
    [type |-> AIRSHIP, lastUpdateID |-> data.lastUpdateID[1],
     previousUpdateID |-> data.previousUpdateID, shouldFetchPendingUpdates |-> Some(TRUE),
     updates |-> IF data.onyxData = None THEN << >>
                 ELSE <<[eventType |-> "", data |-> data.onyxData[1]]>>]

PendingRequest(data) ==
    [type |-> AIRSHIP, lastUpdateID |-> data.lastUpdateID[1], previousUpdateID |-> None,
     shouldFetchPendingUpdates |-> Some(TRUE), updates |-> << >>]

\* an inline request that sends every update of onyxData as a batch of its own
InlineRequestBatchPerUpdate(data) ==
    [type |-> AIRSHIP, lastUpdateID |-> data.lastUpdateID[1],
     previousUpdateID |-> Some(data.previousUpdateID[1]), shouldFetchPendingUpdates |-> None,
     updates |-> [k \in 1..Len(data.onyxData[1]) |->
                     [eventType |-> "", data |-> <<data.onyxData[1][k]>>]]]

InlineRequest(data) ==
    [type |-> AIRSHIP, lastUpdateID |-> data.lastUpdateID[1],
     previousUpdateID |-> Some(data.previousUpdateID[1]), shouldFetchPendingUpdates |-> None,
     updates |-> <<[eventType |-> "", data |-> data.onyxData[1]]>>]

\* BuildUpdates whose pending path does not return when lastUpdateID is missing
BuildUpdatesPendingUnchecked(data) ==
    IF HasPending(data)
    THEN Some([type |-> AIRSHIP,
               lastUpdateID |-> IF data.lastUpdateID = None THEN -1 ELSE data.lastUpdateID[1],
               previousUpdateID |-> None, shouldFetchPendingUpdates |-> Some(TRUE),
               updates |-> << >>])
    ELSE IF ~TruthyNumber(data.lastUpdateID) \/ data.onyxData = None
            \/ ~TruthyNumber(data.previousUpdateID)
         THEN None
         ELSE Some(InlineRequest(data))

\* BuildUpdates that tests the inline fields for presence (!== undefined), not truthiness
BuildUpdatesByPresence(data) ==
    IF HasPending(data)
    THEN IF ~TruthyNumber(data.lastUpdateID) THEN None ELSE Some(PendingRequest(data))
    ELSE IF data.lastUpdateID = None \/ data.onyxData = None \/ data.previousUpdateID = None
         THEN None
         ELSE Some(InlineRequest(data))

\* BuildUpdates that takes an empty onyxData for a missing one
BuildUpdatesEmptyAsMissing(data) ==
    IF HasPending(data)
    THEN IF ~TruthyNumber(data.lastUpdateID) THEN None ELSE Some(PendingRequest(data))
    ELSE IF ~TruthyNumber(data.lastUpdateID) \/ data.onyxData \in {None, Some(<< >>)}
            \/ ~TruthyNumber(data.previousUpdateID)
         THEN None
         ELSE Some(InlineRequest(data))

BuildUpdates(data) ==
    IF HasPending(data)
    THEN IF ~TruthyNumber(data.lastUpdateID) THEN None ELSE Some(PendingRequest(data))
    ELSE IF ~TruthyNumber(data.lastUpdateID) \/ data.onyxData = None
            \/ ~TruthyNumber(data.previousUpdateID)
         THEN None
         ELSE Some(InlineRequest(data))

(***************************************************************************)
(* safelyFinishBackgroundProcessing: whether the bridge method is called   *)
(* and how the call ends.  bridge is "absent" (no module), "noMethod"      *)
(* (module without a finishBackgroundProcessing function), "ok", "throws"  *)
(* or "rejects" (the method returns a rejected promise).                   *)
(***************************************************************************)
BridgeKinds == {"absent", "noMethod", "ok", "throws", "rejects"}

\* a finish signal that calls the bridge method without testing that it exists
finishBackgroundProcessingUnguarded(b) ==
    IF b \notin {"absent", "noMethod"}
    THEN [called |-> TRUE, outcome |-> IF b = "ok" THEN "returns" ELSE b]
    ELSE [called |-> FALSE, outcome |-> "throws"]

safelyFinishBackgroundProcessing(b) ==
    IF b \notin {"absent", "noMethod"}
    THEN [called |-> TRUE, outcome |-> IF b = "ok" THEN "returns" ELSE b]
    ELSE [called |-> FALSE, outcome |-> "returns"]

(***************************************************************************)
(* Report Navigator: routes, the navigation collaborator as the navigator  *)
(* uses it, and the body of the Modal.close callback as the sequence of    *)
(* collaborator calls it makes.                                            *)
(***************************************************************************)
HomeRoute == [screen |-> "home", reportID |-> 0]
\* a route that includes ROUTES.TRANSITION_BETWEEN_APPS
TransitionRoute == [screen |-> "transition", reportID |-> 0]
\* ROUTES.REPORT_WITH_ID.getRoute(String(reportID)), also `r/${reportID}`
ReportRoute(reportID) == [screen |-> "report", reportID |-> reportID]

\* Navigation.getActiveRoute(): the stack is never empty
getActiveRoute(stack) == stack[Len(stack)]

isActiveRoute(stack, route) == getActiveRoute(stack) = route

\* Navigation.goBack(): the root route stays
goBack(stack) == IF Len(stack) > 1 THEN SubSeq(stack, 1, Len(stack) - 1) ELSE stack

\* Navigation.navigate(route): no new screen when the route is the active one
navigate(stack, route) == IF isActiveRoute(stack, route) THEN stack ELSE Append(stack, route)

\* one call of a collaborator, with the route that was active when it was made
NavCall(op, route, backTo, active) ==
    [op |-> op, route |-> route, backTo |-> backTo, active |-> active]

\* a body that does not test isSingleNewDotEntry
SingleNewDotEntryIgnored(flag) == FALSE

\* JavaScript truthiness of isSingleNewDotEntry
SingleNewDotEntry(flag) == flag = Some(TRUE)

\* the last two calls with updateLastVisitedPath before navigate
NavigateAndRecordPathFirst(target, backTo, active) ==
    <<NavCall("updateLastVisitedPath", Some(target), None, active),
      NavCall("navigate", Some(target), backTo, active)>>

\* Navigation.navigate(getRoute(..., backTo)); updateLastVisitedPath(fullTargetRoute)
NavigateAndRecord(target, backTo, active) ==
    <<NavCall("navigate", Some(target), backTo, active),
      NavCall("updateLastVisitedPath", Some(target), None, target)>>

\* const backTo = Navigation.isActiveRoute(fullTargetRoute) ? undefined : Navigation.getActiveRoute()
BackTo(stack, target) == IF isActiveRoute(stack, target) THEN None ELSE Some(getActiveRoute(stack))

\* the try block of the Modal.close callback after the flag test, lines 230-260: every
\* collaborator call it makes when none throws, in order
NavigationCalls(hybrid, stack, reportID) ==
    LET target == ReportRoute(reportID)
        a0 == getActiveRoute(stack)
        pop1 == hybrid /\ a0.screen = "transition"
        s1 == IF pop1 THEN goBack(stack) ELSE stack
        a1 == getActiveRoute(s1)
        isReport == a1.screen = "report"
        pop2 == isReport /\ ~isActiveRoute(s1, target)
        s2 == IF pop2 THEN goBack(s1) ELSE s1
        a2 == getActiveRoute(s2)
        backTo == BackTo(s2, target)
    IN  (IF hybrid THEN <<NavCall("getActiveRoute", None, None, a0)>> ELSE << >>)
        \o (IF pop1 THEN <<NavCall("goBack", None, None, a0)>> ELSE << >>)
        \o <<NavCall("getActiveRoute", None, None, a1)>>
        \o (IF isReport THEN <<NavCall("isActiveRoute", Some(target), None, a1)>> ELSE << >>)
        \o (IF pop2 THEN <<NavCall("goBack", None, None, a1)>> ELSE << >>)
        \o <<NavCall("isActiveRoute", Some(target), None, a2)>>
        \o (IF ~isActiveRoute(s2, target)
            THEN <<NavCall("getActiveRoute", None, None, a2)>> ELSE << >>)
        \o <<NavCall("isActiveRoute", Some(target), None, a2)>>
        \o NavigateAndRecord(target, backTo, a2)

\* what the collaborator calls made do to the stack
RECURSIVE StackAfter(_, _)
StackAfter(stack, made) ==
    IF made = << >> THEN stack
    ELSE StackAfter(CASE Head(made).op = "goBack" -> goBack(stack)
                      [] Head(made).op = "navigate" -> navigate(stack, Head(made).route[1])
                      [] OTHER -> stack,
                    Tail(made))

\* and to the last visited path
PathAfter(path, made) ==
    IF \E k \in 1..Len(made) : made[k].op = "updateLastVisitedPath"
    THEN made[CHOOSE k \in 1..Len(made) : made[k].op = "updateLastVisitedPath"].route
    ELSE path

\* a body without try / catch: the throw leaves the callback
NavigationBodyUncaught(hybrid, flag, stack, reportID, failAt) ==
    IF SingleNewDotEntry(flag) THEN [skipped |-> TRUE, calls |-> << >>, caught |-> FALSE]
    ELSE [skipped |-> FALSE,
          calls |-> IF failAt = 0 THEN NavigationCalls(hybrid, stack, reportID)
                    ELSE SubSeq(NavigationCalls(hybrid, stack, reportID), 1, failAt - 1),
          caught |-> FALSE]

\* the Modal.close callback, lines 219-274: failAt = 0 when no collaborator call throws,
\* else the position of the call that throws; the calls before it are made
NavigationBody(hybrid, flag, stack, reportID, failAt) ==
    IF SingleNewDotEntry(flag) THEN [skipped |-> TRUE, calls |-> << >>, caught |-> FALSE]
    ELSE [skipped |-> FALSE,
          calls |-> IF failAt = 0 THEN NavigationCalls(hybrid, stack, reportID)
                    ELSE SubSeq(NavigationCalls(hybrid, stack, reportID), 1, failAt - 1),
          caught |-> failAt # 0]

(***************************************************************************)
(* Handlers.  A call record is one invocation of a bound handler.          *)
(***************************************************************************)
\* "customHandler" is a callback another module passes to onReceived / onSelected;
\* its promise stays pending
Handlers == {"applyOnyxData", "navigateToReport", "customHandler"}

\* an abandon that still tells the bridge the background work is finished
ApplierStartFinishingOnAbandon(updates) ==
    IF updates = None
    THEN [pc |-> "done", promise |-> "resolved", finishCalls |-> 1]
    ELSE [pc |-> "reading", promise |-> "pending", finishCalls |-> 0]

\* where applyOnyxData stands when it returns: `return Promise.resolve()` when the
\* data is missing, else the chain that starts with getLastUpdateIDAppliedToClient()
ApplierStart(updates) ==
    IF updates = None
    THEN [pc |-> "done", promise |-> "resolved", finishCalls |-> 0]
    ELSE [pc |-> "reading", promise |-> "pending", finishCalls |-> 0]

NewCall(event, listener, eventType, handler, data) ==
    [event |-> event, listener |-> listener, eventType |-> eventType, handler |-> handler,
     data |-> data,
     updates |-> IF handler = "applyOnyxData" THEN BuildUpdates(data) ELSE None,
     pc |-> CASE handler = "applyOnyxData" -> ApplierStart(BuildUpdates(data)).pc
              [] handler = "navigateToReport" -> "waitForProtectedRoutes"
              [] OTHER -> "running",
     promise |-> CASE handler = "applyOnyxData" -> ApplierStart(BuildUpdates(data)).promise
              [] handler = "navigateToReport" -> "resolved"
              [] OTHER -> "pending",
     readFromStore |-> None,
     clientLastUpdateID |-> None,
     forwarded |-> << >>,
     collabSettled |-> FALSE,
     finishCalls |-> IF handler = "applyOnyxData"
                     THEN ApplierStart(BuildUpdates(data)).finishCalls ELSE 0,
     branches |-> << >>,
     nav |-> [routesReady |-> FALSE, closeRequests |-> 0, bodyRuns |-> 0, flag |-> None,
              skipped |-> FALSE, thrownBy |-> "none", caught |-> FALSE, calls |-> << >>,
              before |-> << >>, after |-> << >>]]

(***************************************************************************)
(* Inputs of the exploration.                                              *)
(***************************************************************************)
NotificationIDs == {StringID(""), StringID("idA"), StringID("idB")}

\* IDs passed to register(): a string and a number
DesiredIDs == {StringID("idA"), NumberID("7")}

\* identities the SDK may hold from an earlier run of the app
StoredIdentities == {None, Some("idA"), Some("7")}

StoredUpdateIDs == {None, Some(50)}

\* the payload of the end-to-end example, and its variations
CommentData ==
    JsonObject(Some(REPORT_COMMENT), Some(7), Some(100), Some(99), None, Some(<<"u1", "u2">>))

\* payloads of every outcome the gateway tells apart: no data, data without type, data
\* with a type that has a handler, data with a type that has none
GatewayPayloads ==
    { UndefinedPayload,
      DigitsPayload,
      GzipPayload(CommentData),
      PlainJsonPayload([CommentData EXCEPT !.type = Some(TRANSACTION)]),
      ObjectPayload([CommentData EXCEPT !.type = None]),
      ObjectPayload([CommentData EXCEPT !.type = Some(OTHER_TYPE)]) }

\* payloads of every kind the decoder tells apart
DecoderPayloads ==
    { UndefinedPayload,
      ObjectPayload(CommentData),
      ObjectPayload([CommentData EXCEPT !.hasPendingOnyxUpdates = Some(TRUE), !.onyxData = None]),
      ObjectPayload(JsonNull),
      ObjectPayload(JsonNumber),
      GzipPayload(CommentData),
      GzipPayload(JsonNull),
      CorruptGzipPayload,
      GzipOfGarbagePayload,
      PlainJsonPayload(CommentData),
      DigitsPayload,
      NullTextPayload,
      Base64TextPayload,
      GarbagePayload }

EndToEndPayloads ==
    { UndefinedPayload,
      GzipPayload(CommentData),
      ObjectPayload([CommentData EXCEPT !.hasPendingOnyxUpdates = Some(TRUE)]) }

\* stacks the navigation collaborator may hold when a notification is selected
InitialStacks ==
    { <<HomeRoute>>,
      <<HomeRoute, ReportRoute(7)>>,
      <<HomeRoute, ReportRoute(8)>>,
      <<HomeRoute, TransitionRoute>>,
      <<HomeRoute, ReportRoute(7), TransitionRoute>>,
      <<HomeRoute, ReportRoute(8), TransitionRoute>> }

\* the navigator's surroundings when the modules are loaded
NavigatorAtLoad ==
    /\ IS_HYBRID_APP = FALSE
    /\ hybridApp = None
    /\ isSingleNewDotEntry = None
    /\ navigationStack = <<HomeRoute>>
    /\ lastVisitedPath = None

(***************************************************************************)
(* HTTP wrapper (HttpUtils.ts).  A controller is its index in controllers; *)
(* a request is its index in requests.                                     *)
(***************************************************************************)
ALL == "All"
SEARCH_FOR_REPORTS == "SearchForReports"
OPEN_REPORT == "OpenReport"

\* the keys of ABORT_COMMANDS
AbortCommands == {ALL, SEARCH_FOR_REPORTS}

\* the commands requests are sent with
ApiCommands == {SEARCH_FOR_REPORTS, OPEN_REPORT}

\* response statuses, by the names CONST.HTTP_STATUS gives them
Statuses == {"OK", "INTERNAL_SERVER_ERROR", "TOO_MANY_REQUESTS", "NOT_FOUND"}

\* values the NETWORK key delivers: nothing, or an object whose two flags may be absent
NetworkValues ==
    {None} \cup { Some([shouldFailAllRequests |-> f, shouldForceOffline |-> o]) :
                    f \in {None, Some(FALSE), Some(TRUE)}, o \in {None, Some(FALSE), Some(TRUE)} }

\* !!flag
DoubleBang(flag) == flag # None /\ flag[1]

\* a controller chosen from the All entry whatever the command
AbortSignalControllerAll(map, command, canCancel) ==
    IF canCancel THEN Some(map[ALL]) ELSE None

\* data.canCancel ? (abortControllerMap.get(command) ?? abortControllerMap.get(All)) : undefined
AbortSignalController(map, command, canCancel) ==
    IF canCancel
    THEN Some(IF command \in DOMAIN map THEN map[command] ELSE map[ALL])
    ELSE None

\* a cancel that aborts the stored controller and leaves it in the map
cancelKeepingController(map, ctrls, command) ==
    [controllers |-> [ctrls EXCEPT ![map[command]] = TRUE], map |-> map]

\* controller?.abort(); abortControllerMap.set(command, new AbortController())
cancelPendingRequests(map, ctrls, command) ==
    [controllers |-> Append(IF command \in DOMAIN map
                            THEN [ctrls EXCEPT ![map[command]] = TRUE] ELSE ctrls, FALSE),
     map |-> (command :> (Len(ctrls) + 1)) @@ map]

ServiceInterruptedStatuses ==
    {"INTERNAL_SERVER_ERROR", "BAD_GATEWAY", "GATEWAY_TIMEOUT", "UNKNOWN_ERROR"}

\* the status-code errors of the second .then, or "json" when the response is ok
StatusOutcome(status) ==
    IF status # "OK"
    THEN IF status \in ServiceInterruptedStatuses THEN "EXPENSIFY_SERVICE_INTERRUPTED"
         ELSE IF status = "TOO_MANY_REQUESTS" THEN "THROTTLED"
         ELSE "statusText"
    ELSE "json"

\* a second .then that looks at the status before the test flags
ResponseOutcomeStatusFirst(failAll, forceOffline, status) ==
    IF StatusOutcome(status) # "json" THEN StatusOutcome(status)
    ELSE IF failAll \/ forceOffline THEN "FAILED_TO_FETCH"
    ELSE "json"

\* the second .then of processHTTPRequest: the test flags, then the status
ResponseOutcome(failAll, forceOffline, status) ==
    IF failAll \/ forceOffline THEN "FAILED_TO_FETCH"
    ELSE StatusOutcome(status)

\* a signal taken from the controller that was stored when xhr() was called
SelectedSignalAtCall(storedAtCall, storedAtSend) == storedAtCall

\* the signal fetch gets: abortSignalController is read inside the .then of
\* prepareRequestPayload, not when xhr() is called
SelectedSignal(storedAtCall, storedAtSend) == storedAtSend

\* an xhr() call as the history keeps it: its position, the controller stored for it
\* when xhr() was called, the controller its signal
\* belongs to, whether a test flag was set when it was sent and when its response
\* arrived, the response status and how its promise settled
NewRequest(command, canCancel) ==
    [command |-> command, canCancel |-> canCancel, pc |-> "preparing",
     storedAtCall |-> None, signal |-> None,
     flagAtSend |-> FALSE, status |-> "none", flagAtResponse |-> FALSE, outcome |-> "pending"]

\* the module after it is loaded: both flags false, one fresh controller per abort command
HttpAtLoad ==
    /\ shouldFailAllRequests = FALSE
    /\ shouldForceOffline = FALSE
    /\ controllers = <<FALSE, FALSE>>
    /\ abortControllerMap = (ALL :> 1) @@ (SEARCH_FOR_REPORTS :> 2)
    /\ requests = << >>

(***************************************************************************)
(* Initial state: the modules are loaded, nothing is bound, no listener is *)
(* added, the SDK holds no identity.                                       *)
(***************************************************************************)
Init ==
    /\ notificationEventActionMap = EmptyMap
    /\ listeners = [e \in EventType |-> 0]
    /\ foregroundDisplay = "default"
    /\ namedUserId = None
    /\ namedUserReads = << >>
    /\ registrations = << >>
    /\ deregistrations = << >>
    /\ pushNotificationID = None
    /\ lastUpdateIDStore \in StoredUpdateIDs
    /\ bridge \in BridgeKinds
    /\ NavigatorAtLoad
    /\ HttpAtLoad
    /\ calls = << >>
    /\ deliveries = << >>
    /\ lastBound = [k \in EventType \X PayloadTypes |-> "none"]
    /\ nIDChanges = 0
    /\ nEvents = 0
    /\ nBinds = 0

(***************************************************************************)
(* Registration Manager and init, as the parts of the store callback.      *)
(***************************************************************************)
\* a register() call as the history keeps it: the ID asked for, the state of its identity
\* read and how many reads it issued, the value read, the state of its permission
\* request, its identify calls, and the SDK identity before and after its callback
NewRegistration(notificationID) ==
    [notificationID |-> notificationID, read |-> "pending", reads |-> 1, userID |-> None,
     permission |-> "none", identify |-> << >>, before |-> None, after |-> None]

\* a comparison of the identity with the ID as passed, without toString()
AlreadyRegisteredUnconverted(userID, notificationID) ==
    notificationID.kind = "string" /\ userID = Some(notificationID.text)

\* userID === notificationID.toString()
AlreadyRegistered(userID, notificationID) == userID = Some(toString(notificationID))

\* a callback that leaves identify to the answer of the permission request
RegisterThenAwaitingPermission(reg, userID) ==
    IF AlreadyRegistered(userID, reg.notificationID)
    THEN [reg EXCEPT !.read = "resolved", !.userID = Some(userID)]
    ELSE [reg EXCEPT !.read = "resolved", !.userID = Some(userID), !.permission = "pending"]

\* the .then callback of getNamedUserId(): return when already registered, else
\* enableUserNotifications() (not awaited) and identify(notificationID.toString())
RegisterThen(reg, userID) ==
    IF AlreadyRegistered(userID, reg.notificationID)
    THEN [reg EXCEPT !.read = "resolved", !.userID = Some(userID)]
    ELSE [reg EXCEPT !.read = "resolved", !.userID = Some(userID), !.permission = "pending",
                     !.identify = Append(@, toString(reg.notificationID))]

\* a catch that reads the identity again
RegisterCatchRetrying(reg) == [reg EXCEPT !.read = "pending", !.reads = @ + 1]

\* the .catch callback of getNamedUserId(): Log.warn
RegisterCatch(reg) == [reg EXCEPT !.read = "rejected"]

\* Airship.contact.identify(id) makes id the SDK's identity
IdentityAfter(identity, regBefore, regAfter) ==
    IF Len(regAfter.identify) > Len(regBefore.identify)
    THEN Some(regAfter.identify[Len(regAfter.identify)])
    ELSE identity

\* register(notificationID): the synchronous part issues the identity read
register(notificationID) ==
    /\ registrations' = Append(registrations, NewRegistration(notificationID))
    /\ namedUserReads' = Append(namedUserReads, Len(registrations) + 1)

\* init(): one more listener per event type; foreground notifications always shown
init ==
    /\ listeners' = [e \in EventType |-> listeners[e] + 1]
    /\ foregroundDisplay' = "show"

\* a deregister that acts only when the SDK holds an identity
deregisterWhenIdentified ==
    IF namedUserId # None
    THEN /\ namedUserId' = None
         /\ listeners' = [e \in EventType |-> 0]
         /\ foregroundDisplay' = "hide"
    ELSE UNCHANGED <<namedUserId, listeners, foregroundDisplay>>

\* a deregister that switches the foreground override instead of turning it off
deregisterTogglingForeground ==
    /\ namedUserId' = None
    /\ listeners' = [e \in EventType |-> 0]
    /\ foregroundDisplay' = IF foregroundDisplay = "hide" THEN "show" ELSE "hide"

\* deregister(): reset, removeAllListeners for both event types, foreground display off
deregister ==
    /\ namedUserId' = None
    /\ listeners' = [e \in EventType |-> 0]
    /\ foregroundDisplay' = "hide"

\* the six binds of the store callback, in the order of the source
SubscribeHandlers(map) ==
    onSelected(onReceived(
    onSelected(onReceived(
    onSelected(onReceived(map,
        REPORT_COMMENT, "applyOnyxData"), REPORT_COMMENT, "navigateToReport"),
        REPORT_ACTION, "applyOnyxData"), REPORT_ACTION, "navigateToReport"),
        TRANSACTION, "applyOnyxData"), TRANSACTION, "navigateToReport")

\* a sign-out that starts from an empty table
TableClearedOnDeregister(map) == EmptyMap

\* the table after deregister() and clearNotifications(): neither assigns to
\* notificationEventActionMap, clearNotifications() only calls Airship.push.clearNotifications()
TableAfterDeregister(map) == map

\* what deregister() may touch, for the history
ManagerState ==
    [namedUserId |-> namedUserId, listeners |-> listeners, foregroundDisplay |-> foregroundDisplay,
     notificationEventActionMap |-> notificationEventActionMap]

\* history of a deregister() call; its own getNamedUserId() read is only logged
LogDeregister ==
    deregistrations' = Append(deregistrations,
        [before |-> ManagerState, after |-> ManagerState', read |-> "pending",
         registered |-> Len(registrations)])

\* Onyx.connect(NVP_PRIVATE_PUSH_NOTIFICATION_ID).callback: the store delivers the key's
\* value on connection and then every value that differs from the last one; "" stands
\* for an empty or absent ID.  clearNotifications() and removeAllDynamicShortcuts() act
\* on the notification tray and the launcher only, which the model does not hold.
NotificationIDChanged(notificationID) ==
    /\ nIDChanges < MaxIDChanges
    /\ nIDChanges' = nIDChanges + 1
    /\ pushNotificationID # Some(notificationID)
    /\ pushNotificationID' = Some(notificationID)
    /\ IF TruthyID(notificationID)
       THEN /\ register(notificationID)
            /\ init
            /\ notificationEventActionMap' = SubscribeHandlers(notificationEventActionMap)
            /\ lastBound' = [k \in EventType \X PayloadTypes |->
                                IF k[2] = OTHER_TYPE THEN lastBound[k]
                                ELSE IF k[1] = PushReceived THEN "applyOnyxData"
                                ELSE "navigateToReport"]
            /\ UNCHANGED <<namedUserId, deregistrations>>
       ELSE /\ deregister
            /\ notificationEventActionMap' = TableAfterDeregister(notificationEventActionMap)
            /\ UNCHANGED <<namedUserReads, registrations, lastBound>>
            /\ LogDeregister
    /\ UNCHANGED <<lastUpdateIDStore, bridge, navigatorVars, httpVars, calls, deliveries, nEvents, nBinds>>

\* the pending reads without the i-th
WithoutRead(i) ==
    SubSeq(namedUserReads, 1, i - 1) \o SubSeq(namedUserReads, i + 1, Len(namedUserReads))

\* getNamedUserId() of a register(notificationID) call answers with the SDK's identity
NamedUserIdResolved(i) ==
    /\ i \in 1..Len(namedUserReads)
    /\ LET r == namedUserReads[i]
           reg == RegisterThen(registrations[r], namedUserId)
           identity == IdentityAfter(namedUserId, registrations[r], reg)
       IN  /\ namedUserId' = identity
           /\ registrations' = [registrations EXCEPT ![r] =
                  [reg EXCEPT !.before = namedUserId, !.after = identity]]
    /\ namedUserReads' = WithoutRead(i)
    /\ UNCHANGED <<notificationEventActionMap, listeners, foregroundDisplay, deregistrations,
                   pushNotificationID, lastUpdateIDStore, bridge, navigatorVars, httpVars, calls, deliveries, lastBound,
                   nIDChanges, nEvents, nBinds>>

\* getNamedUserId() fails: caught and logged
NamedUserIdRejected(i) ==
    /\ i \in 1..Len(namedUserReads)
    /\ LET r == namedUserReads[i]
           reg == RegisterCatch(registrations[r])
           identity == IdentityAfter(namedUserId, registrations[r], reg)
       IN  /\ namedUserId' = identity
           /\ registrations' = [registrations EXCEPT ![r] =
                  [reg EXCEPT !.before = namedUserId, !.after = identity]]
           /\ namedUserReads' = IF reg.read = "pending" THEN namedUserReads ELSE WithoutRead(i)
    /\ UNCHANGED <<notificationEventActionMap, listeners, foregroundDisplay, deregistrations,
                   pushNotificationID, lastUpdateIDStore, bridge, navigatorVars, httpVars, calls, deliveries, lastBound,
                   nIDChanges, nEvents, nBinds>>

\* enableUserNotifications() of registration r answers: true, false, or a rejection
PermissionSettles(r, outcome) ==
    /\ r \in 1..Len(registrations)
    /\ registrations[r].permission = "pending"
    /\ registrations' = [registrations EXCEPT ![r].permission = outcome]
    /\ UNCHANGED <<notificationEventActionMap, listeners, foregroundDisplay, namedUserId,
                   namedUserReads, deregistrations, pushNotificationID, lastUpdateIDStore,
                   bridge, navigatorVars, httpVars, calls, deliveries, lastBound, nIDChanges, nEvents, nBinds>>

\* getNamedUserId() of deregistration d answers or fails: logged either way
DeregisterReadSettles(d, outcome) ==
    /\ d \in 1..Len(deregistrations)
    /\ deregistrations[d].read = "pending"
    /\ deregistrations' = [deregistrations EXCEPT ![d].read = outcome]
    /\ UNCHANGED <<notificationEventActionMap, listeners, foregroundDisplay, namedUserId,
                   namedUserReads, registrations, pushNotificationID, lastUpdateIDStore,
                   bridge, navigatorVars, httpVars, calls, deliveries, lastBound, nIDChanges, nEvents, nBinds>>

\* register(notificationID) and deregister() called through the module's exports
ManagerCalls == Len(registrations) + Len(deregistrations)

Register(notificationID) ==
    /\ ManagerCalls < MaxManagerCalls
    /\ register(notificationID)
    /\ UNCHANGED <<notificationEventActionMap, listeners, foregroundDisplay, namedUserId,
                   deregistrations, pushNotificationID, lastUpdateIDStore, bridge, navigatorVars, httpVars, calls,
                   deliveries, lastBound, nIDChanges, nEvents, nBinds>>

Deregister ==
    /\ ManagerCalls < MaxManagerCalls
    /\ deregister
    /\ notificationEventActionMap' = TableAfterDeregister(notificationEventActionMap)
    /\ UNCHANGED <<namedUserReads, registrations,
                   pushNotificationID, lastUpdateIDStore, bridge, navigatorVars, httpVars, calls, deliveries, lastBound,
                   nIDChanges, nEvents, nBinds>>
    /\ LogDeregister

(***************************************************************************)
(* Binds made through the exported onReceived / onSelected.                *)
(***************************************************************************)
OnReceived(notificationType, callback) ==
    /\ nBinds < MaxBinds
    /\ nBinds' = nBinds + 1
    /\ notificationEventActionMap' = onReceived(notificationEventActionMap, notificationType, callback)
    /\ lastBound' = [lastBound EXCEPT ![<<PushReceived, notificationType>>] = callback]
    /\ UNCHANGED <<listeners, foregroundDisplay, namedUserId, namedUserReads, registrations,
                   deregistrations, pushNotificationID,
                   lastUpdateIDStore, bridge, navigatorVars, httpVars, calls, deliveries, nIDChanges, nEvents>>

OnSelected(notificationType, callback) ==
    /\ nBinds < MaxBinds
    /\ nBinds' = nBinds + 1
    /\ notificationEventActionMap' = onSelected(notificationEventActionMap, notificationType, callback)
    /\ lastBound' = [lastBound EXCEPT ![<<NotificationResponse, notificationType>>] = callback]
    /\ UNCHANGED <<listeners, foregroundDisplay, namedUserId, namedUserReads, registrations,
                   deregistrations, pushNotificationID,
                   lastUpdateIDStore, bridge, navigatorVars, httpVars, calls, deliveries, nIDChanges, nEvents>>

(***************************************************************************)
(* The SDK delivers one event: every listener added by init() runs         *)
(* pushNotificationEventCallback and returns its result to the SDK.        *)
(***************************************************************************)
\* a listener that awaits nothing: it hands the SDK a promise of its own (identity 0)
ListenerReturnsFreshPromise(r, promiseId) == IF r.invoke THEN Some(0) ELSE None

\* what a listener returns: the promise of the handler call it made, or undefined
ListenerReturn(r, promiseId) == IF r.invoke THEN Some(promiseId) ELSE None

SdkDeliver(eventType, payload) ==
    /\ nEvents < MaxEvents
    /\ nEvents' = nEvents + 1
    /\ notificationEventActionMap' =
           DispatchTableAfter(notificationEventActionMap, eventType, payload)
    /\ LET r == pushNotificationEventCallback(notificationEventActionMap, eventType, payload)
           n == listeners[eventType]
       IN  /\ calls' = calls \o
                   [i \in 1..(IF r.invoke THEN n ELSE 0) |->
                       NewCall(nEvents + 1, i, eventType, r.action, r.data)]
           /\ deliveries' = Append(deliveries,
                   [eventType |-> eventType, payload |-> payload, bound |-> lastBound,
                    decoded |-> Decode(payload),
                    rets |-> [i \in 1..n |-> ListenerReturn(r, Len(calls) + i)]])
    /\ UNCHANGED <<listeners, foregroundDisplay, namedUserId,
                   namedUserReads, registrations, deregistrations, pushNotificationID,
                   lastUpdateIDStore, bridge, navigatorVars, httpVars, lastBound, nIDChanges, nBinds>>

(***************************************************************************)
(* Update Applier, asynchronous part, for the call record c.               *)
(***************************************************************************)
Others == <<notificationEventActionMap, listeners, foregroundDisplay, namedUserId, namedUserReads,
            registrations, deregistrations, pushNotificationID, bridge, navigatorVars, httpVars, deliveries, lastBound, nIDChanges, nEvents, nBinds>>

IsApplierAt(c, pc) ==
    /\ c \in 1..Len(calls)
    /\ calls[c].handler = "applyOnyxData"
    /\ calls[c].pc = pc

\* the Onyx.connect callback of getLastUpdateIDAppliedToClient: value ?? DEFAULT_NUMBER_ID
getLastUpdateIDAppliedToClient(value) == IF value = None THEN DEFAULT_NUMBER_ID ELSE value[1]

\* the store answers the read
LastUpdateIDDelivered(c) ==
    /\ IsApplierAt(c, "reading")
    /\ calls' = [calls EXCEPT ![c] = [@ EXCEPT
            !.pc = "readDone",
            !.readFromStore = Some(lastUpdateIDStore),
            !.clientLastUpdateID = Some(getLastUpdateIDAppliedToClient(lastUpdateIDStore))]]
    /\ UNCHANGED <<Others, lastUpdateIDStore>>

\* options that leave the hint at the default instead of the value read
ReliableOptionsDefaultHint(call) == [shouldRunSync |-> TRUE, clientLastUpdateID |-> DEFAULT_NUMBER_ID]

\* the options passed to applyOnyxUpdatesReliably
ReliableOptions(call) == [shouldRunSync |-> TRUE, clientLastUpdateID |-> call.clientLastUpdateID[1]]

\* first .then: applyOnyxUpdatesReliably(updates, options)
ApplyOnyxUpdatesReliably(c) ==
    /\ IsApplierAt(c, "readDone")
    /\ calls' = [calls EXCEPT ![c] = [@ EXCEPT
            !.pc = "applying",
            !.forwarded = Append(@, [updates |-> calls[c].updates[1],
                                     options |-> ReliableOptions(calls[c])])]]
    /\ UNCHANGED <<Others, lastUpdateIDStore>>

\* the collaborator's promise settles
CollaboratorSettles(c, fulfilled) ==
    /\ IsApplierAt(c, "applying")
    /\ calls' = [calls EXCEPT ![c] = [@ EXCEPT
            !.pc = IF fulfilled THEN "then" ELSE "catch",
            !.collabSettled = TRUE]]
    /\ UNCHANGED <<Others, lastUpdateIDStore>>

\* second .then: safelyFinishBackgroundProcessing('success')
SuccessBranch(c) ==
    /\ IsApplierAt(c, "then")
    /\ LET f == safelyFinishBackgroundProcessing(bridge)
       IN  calls' = [calls EXCEPT ![c] = [@ EXCEPT
               !.finishCalls = @ + (IF f.called THEN 1 ELSE 0),
               !.branches = Append(@, "success"),
               !.pc = IF f.outcome = "returns" THEN "done" ELSE "catch",
               !.promise = IF f.outcome = "returns" THEN "resolved" ELSE "pending"]]
    /\ UNCHANGED <<Others, lastUpdateIDStore>>

\* .catch: safelyFinishBackgroundProcessing('error')
ErrorBranch(c) ==
    /\ IsApplierAt(c, "catch")
    /\ LET f == safelyFinishBackgroundProcessing(bridge)
       IN  calls' = [calls EXCEPT ![c] = [@ EXCEPT
               !.finishCalls = @ + (IF f.called THEN 1 ELSE 0),
               !.branches = Append(@, "error"),
               !.pc = "done",
               !.promise = IF f.outcome = "returns" THEN "resolved" ELSE "rejected"]]
    /\ UNCHANGED <<Others, lastUpdateIDStore>>

(***************************************************************************)
(* Report Navigator, asynchronous part, for the call record c.             *)
(* navigateToReport itself returns Promise.resolve() at once (NewCall).    *)
(***************************************************************************)
IsNavigatorAt(c, pc) ==
    /\ c \in 1..Len(calls)
    /\ calls[c].handler = "navigateToReport"
    /\ calls[c].pc = pc

\* a callback without the early return: a cleared value clears the flag
HybridAppCallbackClearing(flag, value) == IF value = None THEN None ELSE value[1]

\* if (!value) return; isSingleNewDotEntry = value?.isSingleNewDotEntry
HybridAppCallback(flag, value) == IF value = None THEN flag ELSE value[1]

\* Onyx.connect(HYBRID_APP).callback: value is <<>> when falsy, else the one-element
\* sequence of its isSingleNewDotEntry field (undefined, true or false)
HybridAppChanged(value) ==
    /\ value # hybridApp
    /\ hybridApp' = value
    /\ isSingleNewDotEntry' = HybridAppCallback(isSingleNewDotEntry, value)
    /\ UNCHANGED <<notificationEventActionMap, listeners, foregroundDisplay, namedUserId,
                   namedUserReads, registrations, deregistrations, pushNotificationID,
                   lastUpdateIDStore, bridge, IS_HYBRID_APP, navigationStack, lastVisitedPath,
                   httpVars, calls, deliveries, lastBound, nIDChanges, nEvents, nBinds>>

\* a routes-ready callback that leaves the overlay open
RoutesReadyWithoutClose(nav) == [nav EXCEPT !.routesReady = TRUE]

\* the .then callback of waitForProtectedRoutes(): Modal.close(callback)
RoutesReadyCallback(nav) == [nav EXCEPT !.routesReady = TRUE, !.closeRequests = @ + 1]

\* the navigation collaborator signals that the protected routes are ready
RoutesReady(c) ==
    /\ IsNavigatorAt(c, "waitForProtectedRoutes")
    /\ calls' = [calls EXCEPT ![c] = [@ EXCEPT
            !.pc = "Modal.close", !.nav = RoutesReadyCallback(@)]]
    /\ UNCHANGED <<Others, lastUpdateIDStore>>

\* the collaborator calls of the body of call c that may throw: 0 stands for none
PossibleFailures(c) ==
    IF SingleNewDotEntry(isSingleNewDotEntry) THEN {0}
    ELSE 0..Len(NavigationCalls(IS_HYBRID_APP, navigationStack, calls[c].data.reportID[1]))

\* the modal layer runs the callback passed to Modal.close; the failAt-th collaborator
\* call of the body throws (none when failAt = 0)
ModalClosed(c, failAt) ==
    /\ IsNavigatorAt(c, "Modal.close")
    /\ failAt \in PossibleFailures(c)
    /\ LET body == NavigationBody(IS_HYBRID_APP, isSingleNewDotEntry, navigationStack,
                                  calls[c].data.reportID[1], failAt)
           all == NavigationCalls(IS_HYBRID_APP, navigationStack, calls[c].data.reportID[1])
       IN  /\ navigationStack' = StackAfter(navigationStack, body.calls)
           /\ lastVisitedPath' = PathAfter(lastVisitedPath, body.calls)
           /\ calls' = [calls EXCEPT ![c] = [@ EXCEPT
                   !.pc = "done",
                   !.nav = [@ EXCEPT
                       !.bodyRuns = @ + 1,
                       !.flag = isSingleNewDotEntry,
                       !.skipped = body.skipped,
                       !.thrownBy = IF failAt = 0 THEN "none" ELSE all[failAt].op,
                       !.caught = body.caught,
                       !.calls = body.calls,
                       !.before = <<navigationStack, lastVisitedPath>>,
                       !.after = <<StackAfter(navigationStack, body.calls),
                                   PathAfter(lastVisitedPath, body.calls)>>]]]
    /\ UNCHANGED <<notificationEventActionMap, listeners, foregroundDisplay, namedUserId,
                   namedUserReads, registrations, deregistrations, pushNotificationID,
                   lastUpdateIDStore, bridge, IS_HYBRID_APP, hybridApp, isSingleNewDotEntry, httpVars,
                   deliveries, lastBound, nIDChanges, nEvents, nBinds>>

(***************************************************************************)
(* HTTP wrapper, steps.                                                    *)
(***************************************************************************)
\* the Onyx.connect callback of the NETWORK key
NetworkChanged(network) ==
    /\ network # None
    /\ shouldFailAllRequests' = DoubleBang(network[1].shouldFailAllRequests)
    /\ shouldForceOffline' = DoubleBang(network[1].shouldForceOffline)
    /\ UNCHANGED <<pushVars, controllers, abortControllerMap, requests>>

\* xhr(command, data): prepareRequestPayload is started
Xhr(command, canCancel) ==
    /\ Len(requests) < MaxRequests
    /\ requests' = Append(requests,
           [NewRequest(command, canCancel) EXCEPT
               !.storedAtCall = AbortSignalController(abortControllerMap, command, canCancel)])
    /\ UNCHANGED <<pushVars, shouldFailAllRequests, shouldForceOffline, controllers,
                   abortControllerMap>>

\* the .then of prepareRequestPayload: the signal is chosen and fetch is called; fetch
\* with a signal that is already aborted rejects at once
PayloadPrepared(r) ==
    /\ r \in 1..Len(requests)
    /\ requests[r].pc = "preparing"
    /\ LET signal == SelectedSignal(requests[r].storedAtCall,
                                    AbortSignalController(abortControllerMap,
                                        requests[r].command, requests[r].canCancel))
           aborted == signal # None /\ controllers[signal[1]]
       IN  requests' = [requests EXCEPT ![r] = [@ EXCEPT
               !.pc = IF aborted THEN "settled" ELSE "inflight",
               !.signal = signal,
               !.flagAtSend = shouldFailAllRequests \/ shouldForceOffline,
               !.outcome = IF aborted THEN "AbortErrorAtSend" ELSE "pending"]]
    /\ UNCHANGED <<pushVars, shouldFailAllRequests, shouldForceOffline, controllers,
                   abortControllerMap>>

\* cancelPendingRequests(command): every fetch in flight on the aborted signal rejects
CancelPendingRequests(command) ==
    /\ Len(controllers) < Cardinality(AbortCommands) + MaxCancels
    /\ LET after == cancelPendingRequests(abortControllerMap, controllers, command)
       IN  /\ controllers' = after.controllers
           /\ abortControllerMap' = after.map
           /\ requests' = [r \in 1..Len(requests) |->
                  IF /\ requests[r].pc = "inflight"
                     /\ requests[r].signal # None
                     /\ after.controllers[requests[r].signal[1]]
                  THEN [requests[r] EXCEPT !.pc = "settled", !.outcome = "AbortError"]
                  ELSE requests[r]]
    /\ UNCHANGED <<pushVars, shouldFailAllRequests, shouldForceOffline>>

\* the server's response arrives: the .then chain of processHTTPRequest runs
ResponseArrives(r, status) ==
    /\ r \in 1..Len(requests)
    /\ requests[r].pc = "inflight"
    /\ requests' = [requests EXCEPT ![r] = [@ EXCEPT
           !.pc = "settled",
           !.status = status,
           !.flagAtResponse = shouldFailAllRequests \/ shouldForceOffline,
           !.outcome = ResponseOutcome(shouldFailAllRequests, shouldForceOffline, status)]]
    /\ UNCHANGED <<pushVars, shouldFailAllRequests, shouldForceOffline, controllers,
                   abortControllerMap>>

\* another module writes the last update ID applied to the client
StoreWrite(value) ==
    /\ value # lastUpdateIDStore
    /\ lastUpdateIDStore' = value
    /\ UNCHANGED <<Others, calls>>

(***************************************************************************)
(* End to end: the store callback, the SDK's answers and events, and the   *)
(* update applier.  The only binds are the six of the store callback, the  *)
(* only caller of onReceived / onSelected in the repository.               *)
(* The answers to the permission request and to deregister()'s identity    *)
(* read are only logged by the code; they are steps of SpecRegistration.   *)
(***************************************************************************)
ApplierStep(c) ==
    \/ LastUpdateIDDelivered(c)
    \/ ApplyOnyxUpdatesReliably(c)
    \/ CollaboratorSettles(c, TRUE)
    \/ CollaboratorSettles(c, FALSE)
    \/ SuccessBranch(c)
    \/ ErrorBranch(c)

Next ==
    \/ \E id \in NotificationIDs : NotificationIDChanged(id)
    \/ \E i \in 1..Len(namedUserReads) : NamedUserIdResolved(i)
    \/ \E i \in 1..Len(namedUserReads) : NamedUserIdRejected(i)
    \/ \E e \in EventType, p \in EndToEndPayloads : SdkDeliver(e, p)
    \/ \E c \in 1..Len(calls) : ApplierStep(c)
    \/ \E v \in StoredUpdateIDs : StoreWrite(v)

Spec == Init /\ [][Next]_vars

(***************************************************************************)
(* The gateway and its dispatch table under every bind the exported        *)
(* onReceived / onSelected allow.  The handlers' asynchronous parts do not *)
(* touch the table and are left out; the bridge and the store are fixed.   *)
(***************************************************************************)
InitGateway ==
    /\ Init
    /\ bridge = "ok"
    /\ lastUpdateIDStore = None

NextGateway ==
    \/ \E id \in {StringID(""), StringID("idA")} : NotificationIDChanged(id)
    \/ \E t \in PayloadTypes : OnReceived(t, "customHandler")
    \/ \E t \in PayloadTypes : OnSelected(t, "customHandler")
    \/ \E e \in EventType, p \in GatewayPayloads : SdkDeliver(e, p)

SpecGateway == InitGateway /\ [][NextGateway]_vars

(***************************************************************************)
(* The update applier alone, over every combination of the fields it       *)
(* reads.  It starts in the state the store callback leaves after the      *)
(* first notification ID: one listener per event type, the six handlers    *)
(* bound, the identity read of register() not yet answered.                *)
(***************************************************************************)
ApplierData ==
    { JsonObject(Some(REPORT_COMMENT), Some(7), l, p, h, o) :
        l \in {None, Some(0), Some(100)}, p \in {None, Some(0), Some(99)},
        h \in {None, Some(FALSE), Some(TRUE)},
        o \in {None, Some(<< >>), Some(<<"u1", "u2">>)} }

InitApplier ==
    /\ notificationEventActionMap = SubscribeHandlers(EmptyMap)
    /\ listeners = [e \in EventType |-> 1]
    /\ foregroundDisplay = "show"
    /\ namedUserId = None
    /\ namedUserReads = <<1>>
    /\ registrations = <<NewRegistration(StringID("idA"))>>
    /\ deregistrations = << >>
    /\ pushNotificationID = Some(StringID("idA"))
    /\ lastUpdateIDStore \in StoredUpdateIDs
    /\ bridge \in BridgeKinds
    /\ NavigatorAtLoad
    /\ HttpAtLoad
    /\ calls = << >>
    /\ deliveries = << >>
    /\ lastBound = [k \in EventType \X PayloadTypes |->
                       IF k[2] = OTHER_TYPE THEN "none"
                       ELSE IF k[1] = PushReceived THEN "applyOnyxData"
                       ELSE "navigateToReport"]
    /\ nIDChanges = 1
    /\ nEvents = 0
    /\ nBinds = 0

NextApplier ==
    \/ \E d \in ApplierData : SdkDeliver(PushReceived, ObjectPayload(d))
    \/ \E c \in 1..Len(calls) : ApplierStep(c)
    \/ \E v \in StoredUpdateIDs : StoreWrite(v)

SpecApplier == InitApplier /\ [][NextApplier]_vars

(***************************************************************************)
(* The report navigator: notifications selected by the user, in the state  *)
(* the store callback leaves after the first notification ID, on either    *)
(* kind of build and over every stack of InitialStacks.                    *)
(***************************************************************************)
HybridAppValues == {None, Some(None), Some(Some(TRUE)), Some(Some(FALSE))}

InitNavigator ==
    /\ notificationEventActionMap = SubscribeHandlers(EmptyMap)
    /\ listeners = [e \in EventType |-> 1]
    /\ foregroundDisplay = "show"
    /\ namedUserId = None
    /\ namedUserReads = <<1>>
    /\ registrations = <<NewRegistration(StringID("idA"))>>
    /\ deregistrations = << >>
    /\ pushNotificationID = Some(StringID("idA"))
    /\ lastUpdateIDStore = None
    /\ bridge = "ok"
    /\ IS_HYBRID_APP \in BOOLEAN
    /\ hybridApp = None
    /\ isSingleNewDotEntry = None
    /\ navigationStack \in InitialStacks
    /\ lastVisitedPath = None
    /\ HttpAtLoad
    /\ calls = << >>
    /\ deliveries = << >>
    /\ lastBound = [k \in EventType \X PayloadTypes |->
                       IF k[2] = OTHER_TYPE THEN "none"
                       ELSE IF k[1] = PushReceived THEN "applyOnyxData"
                       ELSE "navigateToReport"]
    /\ nIDChanges = 1
    /\ nEvents = 0
    /\ nBinds = 0

NextNavigator ==
    \/ SdkDeliver(NotificationResponse, ObjectPayload(CommentData))
    \/ \E v \in HybridAppValues : HybridAppChanged(v)
    \/ \E c \in 1..Len(calls) : RoutesReady(c)
    \/ \E c \in 1..Len(calls) : \E k \in PossibleFailures(c) : ModalClosed(c, k)

SpecNavigator == InitNavigator /\ [][NextNavigator]_vars

(***************************************************************************)
(* The payload decoder, applied by the listeners to payloads of every      *)
(* kind, in every state the store callback leaves.                         *)
(***************************************************************************)
NextDecoder ==
    \/ \E id \in NotificationIDs : NotificationIDChanged(id)
    \/ \E e \in EventType, p \in DecoderPayloads : SdkDeliver(e, p)

SpecDecoder == InitGateway /\ [][NextDecoder]_vars

(***************************************************************************)
(* The registration manager: register() and deregister() called through    *)
(* the store callback and through the module's exports, with every answer  *)
(* of the SDK.  The SDK may hold an identity from an earlier run.          *)
(***************************************************************************)
InitRegistration ==
    /\ notificationEventActionMap = EmptyMap
    /\ listeners = [e \in EventType |-> 0]
    /\ foregroundDisplay = "default"
    /\ namedUserId \in StoredIdentities
    /\ namedUserReads = << >>
    /\ registrations = << >>
    /\ deregistrations = << >>
    /\ pushNotificationID = None
    /\ lastUpdateIDStore = None
    /\ bridge = "ok"
    /\ NavigatorAtLoad
    /\ HttpAtLoad
    /\ calls = << >>
    /\ deliveries = << >>
    /\ lastBound = [k \in EventType \X PayloadTypes |-> "none"]
    /\ nIDChanges = 0
    /\ nEvents = 0
    /\ nBinds = 0

NextRegistration ==
    \/ \E id \in {StringID(""), StringID("idA")} :
           ManagerCalls < MaxManagerCalls /\ NotificationIDChanged(id)
    \/ \E id \in DesiredIDs : Register(id)
    \/ Deregister
    \/ \E i \in 1..Len(namedUserReads) : NamedUserIdResolved(i)
    \/ \E i \in 1..Len(namedUserReads) : NamedUserIdRejected(i)
    \/ \E r \in 1..Len(registrations), o \in {"enabled", "disabled", "rejected"} :
           PermissionSettles(r, o)
    \/ \E d \in 1..Len(deregistrations), o \in {"resolved", "rejected"} :
           DeregisterReadSettles(d, o)

SpecRegistration == InitRegistration /\ [][NextRegistration]_vars

(***************************************************************************)
(* The HTTP wrapper alone: requests of two commands, with and without      *)
(* canCancel, cancels of both abort commands, the NETWORK key changing at  *)
(* any moment and responses of four statuses.                              *)
(***************************************************************************)
NextHttp ==
    \/ \E n \in NetworkValues : NetworkChanged(n)
    \/ \E command \in ApiCommands, canCancel \in BOOLEAN : Xhr(command, canCancel)
    \/ \E r \in 1..Len(requests) : PayloadPrepared(r)
    \/ \E command \in AbortCommands : CancelPendingRequests(command)
    \/ \E r \in 1..Len(requests), status \in Statuses : ResponseArrives(r, status)

SpecHttp == InitGateway /\ [][NextHttp]_vars

(***************************************************************************)
(* Properties.                                                             *)
(***************************************************************************)
CallIds == 1..Len(calls)

ApplierCalls == {c \in CallIds : calls[c].handler = "applyOnyxData"}

CallsOfEvent(e) == {c \in CallIds : calls[c].event = e}

RECURSIVE Total(_, _)
Total(f, S) == IF S = {} THEN 0 ELSE LET c == CHOOSE x \in S : TRUE IN f[c] + Total(f, S \ {c})

CollaboratorCalls(e) == Total([c \in CallsOfEvent(e) |-> Len(calls[c].forwarded)], CallsOfEvent(e))

FinishSignals(e) == Total([c \in CallsOfEvent(e) |-> calls[c].finishCalls], CallsOfEvent(e))

\* the handler most recently bound, when delivery d was made, to (its event type, the
\* type its payload decodes to); "none" when there is no data, no type or no bind
HandlerBoundFor(d) ==
    LET data == parsePushNotificationPayload(d.payload)
    IN  IF TruthyJson(data) /\ data[1].type # None
        THEN d.bound[<<d.eventType, data[1].type[1]>>]
        ELSE "none"

\* C1: when a delivered event decodes to data with a type and a handler H is bound to
\* (event type, type), every listener invocation calls H exactly once with the decoded
\* data and returns to the SDK the very promise of that call.
C1_HandlerPromiseReturned ==
    \A e \in 1..Len(deliveries) :
        LET d == deliveries[e]
        IN  HandlerBoundFor(d) # "none" =>
                \A i \in 1..Len(d.rets) :
                    /\ d.rets[i] # None
                    /\ d.rets[i][1] \in CallIds
                    /\ calls[d.rets[i][1]].handler = HandlerBoundFor(d)
                    /\ calls[d.rets[i][1]].data = parsePushNotificationPayload(d.payload)[1]
                    /\ calls[d.rets[i][1]].event = e
                    /\ calls[d.rets[i][1]].listener = i
                    /\ Cardinality({c \in CallsOfEvent(e) : calls[c].listener = i}) = 1

\* C1 witness: a user-selected event was dispatched by a listener to a bound custom handler
C1_Witness ==
    \E e \in 1..Len(deliveries) :
        /\ deliveries[e].eventType = NotificationResponse
        /\ HandlerBoundFor(deliveries[e]) = "customHandler"
        /\ Len(deliveries[e].rets) >= 1

\* C2: (the claim as stated) a received event with the gzip report-comment payload that
\* reaches at least one listener, on a build whose bridge works, ends with exactly one
\* collaborator call and exactly one finish signal, whatever ID changes came before.
C2_ExactlyOnceEndToEnd ==
    \A e \in 1..Len(deliveries) :
        ( /\ deliveries[e].eventType = PushReceived
          /\ deliveries[e].payload = GzipPayload(CommentData)
          /\ Len(deliveries[e].rets) >= 1
          /\ bridge = "ok"
          /\ \A c \in CallsOfEvent(e) : calls[c].pc = "done" )
        => (CollaboratorCalls(e) = 1 /\ FinishSignals(e) = 1)

\* C3: (the claim as stated) on a build whose bridge has the finish method, the finish
\* signal is never sent before the collaborator settled, and once the call is over it
\* has been sent exactly once.
C3_FinishExactlyOnce ==
    \A c \in ApplierCalls :
        /\ calls[c].finishCalls > 0 => calls[c].collabSettled
        /\ (calls[c].collabSettled /\ calls[c].pc = "done" /\ bridge \notin {"absent", "noMethod"})
               => calls[c].finishCalls = 1

\* C4: (the claim as stated) the promise returned by applyOnyxData never rejects.
C4_ApplierNeverRejects == \A c \in ApplierCalls : calls[c].promise # "rejected"

\* C5: the table holds, for every (event type, type), exactly the callback of the latest
\* bind call for that pair, and every handler a dispatch invoked is the one that was the
\* latest bound to the pair when the event was delivered.
C5_LatestBindWins ==
    /\ \A e \in EventType, t \in PayloadTypes :
          lookup(notificationEventActionMap, e, t) =
              (IF lastBound[<<e, t>>] = "none" THEN None ELSE Some(lastBound[<<e, t>>]))
    /\ \A c \in CallIds :
          calls[c].handler = deliveries[calls[c].event].bound[<<calls[c].eventType, calls[c].data.type[1]>>]

\* C5 witness: a custom handler, bound over a handler of the store callback, was invoked
C5_Witness ==
    \E c \in CallIds :
        /\ calls[c].handler = "customHandler"
        /\ calls[c].data.type[1] \in NotificationType

\* C6: a dispatch whose payload decodes to no data, or to data without type, or to a type
\* with no handler bound under the event's type, invokes nothing, returns undefined from
\* every listener and changes nothing the layer holds.
C6_NoHandlerNoOp ==
    [][ ( /\ Len(deliveries') = Len(deliveries) + 1
          /\ HandlerBoundFor(deliveries'[Len(deliveries')]) = "none" )
        => ( /\ calls' = calls
             /\ \A i \in 1..Len(deliveries'[Len(deliveries')].rets) :
                    deliveries'[Len(deliveries')].rets[i] = None
             /\ UNCHANGED <<notificationEventActionMap, listeners, foregroundDisplay, namedUserId,
                            namedUserReads, registrations, deregistrations,
                            pushNotificationID, lastUpdateIDStore, bridge, navigatorVars, httpVars, lastBound>> ) ]_vars

\* C6 witness: a listener ran for an event whose type has a handler under the other
\* event type only
C6_Witness ==
    \E e \in 1..Len(deliveries) :
        /\ Len(deliveries[e].rets) >= 1
        /\ HandlerBoundFor(deliveries[e]) = "none"
        /\ \E k \in EventType : HandlerBoundFor([deliveries[e] EXCEPT !.eventType = k]) # "none"

\* C7: a call with hasPendingOnyxUpdates true and no lastUpdateID is resolved at once and
\* never forwards anything to the collaborator, whatever its other fields.
C7_PendingWithoutLastUpdateID ==
    \A c \in ApplierCalls :
        (HasPending(calls[c].data) /\ calls[c].data.lastUpdateID = None)
        => (calls[c].promise = "resolved" /\ calls[c].pc = "done" /\ calls[c].forwarded = << >>)

\* C7 witness: such a call, carrying previousUpdateID and onyxData, was made
C7_Witness ==
    \E c \in ApplierCalls :
        /\ HasPending(calls[c].data)
        /\ calls[c].data.lastUpdateID = None
        /\ calls[c].data.previousUpdateID # None
        /\ calls[c].data.onyxData # None

AllPresent(data) ==
    data.lastUpdateID # None /\ data.previousUpdateID # None /\ data.onyxData # None

AllTruthy(data) ==
    TruthyNumber(data.lastUpdateID) /\ TruthyNumber(data.previousUpdateID) /\ data.onyxData # None

ReadAnswered(c) == calls[c].pc \notin {"reading", "readDone"}

\* C8 as stated: on the inline path the collaborator is called if and only if the three
\* fields are all present.
C8_CalledIffAllPresent ==
    \A c \in ApplierCalls :
        ~HasPending(calls[c].data) =>
            /\ calls[c].forwarded # << >> => AllPresent(calls[c].data)
            /\ (AllPresent(calls[c].data) /\ ReadAnswered(c)) => Len(calls[c].forwarded) = 1

\* C8 amended: on the inline path the collaborator is called, once, if and only if
\* lastUpdateID and previousUpdateID are present and not 0 and onyxData is present;
\* otherwise the call is resolved at once without calling it.
C8_CalledIffAllTruthy ==
    \A c \in ApplierCalls :
        ~HasPending(calls[c].data) =>
            /\ calls[c].forwarded # << >> => AllTruthy(calls[c].data)
            /\ (AllTruthy(calls[c].data) /\ ReadAnswered(c)) => Len(calls[c].forwarded) = 1
            /\ ~AllTruthy(calls[c].data) =>
                   (calls[c].promise = "resolved" /\ calls[c].pc = "done")

\* C8 witness: an inline call with the three fields set and not 0 forwarded its request
C8_Witness ==
    \E c \in ApplierCalls :
        /\ ~HasPending(calls[c].data)
        /\ AllTruthy(calls[c].data)
        /\ Len(calls[c].forwarded) = 1

\* C9: whenever a request is forwarded, the store has answered the read before, and the
\* hint passed is the value it answered with, or DEFAULT_NUMBER_ID when it answered
\* with none.
C9_HintIsValueRead ==
    \A c \in ApplierCalls :
        \A k \in 1..Len(calls[c].forwarded) :
            /\ calls[c].readFromStore # None
            /\ calls[c].forwarded[k].options.clientLastUpdateID =
                   (IF calls[c].readFromStore[1] = None THEN DEFAULT_NUMBER_ID
                    ELSE calls[c].readFromStore[1][1])

\* C9 witness: a request was forwarded with the value read although the store has been
\* written since
C9_Witness ==
    \E c \in ApplierCalls :
        /\ calls[c].forwarded # << >>
        /\ calls[c].readFromStore = Some(Some(50))
        /\ lastUpdateIDStore = None

\* C10: on the pending path every request forwarded is {AIRSHIP, the payload's
\* lastUpdateID, shouldFetchPendingUpdates true, no batches, no previousUpdateID}, and a
\* truthy lastUpdateID always builds that request.
C10_PendingRequestShape ==
    \A c \in ApplierCalls :
        HasPending(calls[c].data) =>
            /\ TruthyNumber(calls[c].data.lastUpdateID) => calls[c].updates # None
            /\ \A k \in 1..Len(calls[c].forwarded) :
                   calls[c].forwarded[k].updates =
                       [type |-> AIRSHIP, lastUpdateID |-> calls[c].data.lastUpdateID[1],
                        previousUpdateID |-> None, shouldFetchPendingUpdates |-> Some(TRUE),
                        updates |-> << >>]

\* C10 witness: a pending-path payload that also carries inline data was forwarded
C10_Witness ==
    \E c \in ApplierCalls :
        /\ HasPending(calls[c].data)
        /\ calls[c].forwarded # << >>
        /\ calls[c].data.onyxData = Some(<<"u1", "u2">>)
        /\ calls[c].data.previousUpdateID = Some(99)

\* C11: on the inline path every request forwarded to the collaborator is {AIRSHIP, the
\* payload's lastUpdateID, the payload's previousUpdateID, no shouldFetchPendingUpdates,
\* one batch holding the payload's onyxData in its order}.
C11_InlineRequestShape ==
    \A c \in ApplierCalls :
        ~HasPending(calls[c].data) =>
            \A k \in 1..Len(calls[c].forwarded) :
                /\ AllPresent(calls[c].data)
                /\ calls[c].forwarded[k].updates =
                       [type |-> AIRSHIP, lastUpdateID |-> calls[c].data.lastUpdateID[1],
                        previousUpdateID |-> Some(calls[c].data.previousUpdateID[1]),
                        shouldFetchPendingUpdates |-> None,
                        updates |-> <<[eventType |-> "", data |-> calls[c].data.onyxData[1]]>>]

\* C11 witness: an inline payload with two updates was forwarded
C11_Witness ==
    \E c \in ApplierCalls :
        /\ ~HasPending(calls[c].data)
        /\ calls[c].data.onyxData = Some(<<"u1", "u2">>)
        /\ Len(calls[c].forwarded) = 1

\* C12: on a build without the bridge module, or whose module lacks the finish method,
\* no bridge method is called, the finish signal throws nothing, and every applier call
\* that reached the success or the error branch is over with its promise resolved,
\* each branch having run at most once.
C12_NoBridgeStillResolves ==
    bridge \in {"absent", "noMethod"} =>
        \A c \in ApplierCalls :
            /\ calls[c].finishCalls = 0
            /\ calls[c].promise # "rejected"
            /\ calls[c].branches \in {<< >>, <<"success">>, <<"error">>}
            /\ calls[c].branches # << >> => (calls[c].pc = "done" /\ calls[c].promise = "resolved")

\* C12 witness: on a build without the method, a call whose collaborator rejected ran
\* the error branch
C12_Witness ==
    \E c \in ApplierCalls :
        /\ bridge = "noMethod"
        /\ calls[c].branches = <<"error">>
        /\ calls[c].promise = "resolved"

RegistrationIds == 1..Len(registrations)

DeregistrationIds == 1..Len(deregistrations)

\* the identity read of registration r answered with the ID asked for, as a string
ReadEqualsDesired(r) ==
    /\ registrations[r].read = "resolved"
    /\ registrations[r].userID = Some(Some(toString(registrations[r].notificationID)))

ReadDiffersFromDesired(r) ==
    /\ registrations[r].read = "resolved"
    /\ registrations[r].userID # Some(Some(toString(registrations[r].notificationID)))

\* C13: a register call whose identity read answered with the string of the desired ID
\* made no identify call and no permission request and left the SDK identity as it was.
C13_AlreadyRegisteredNoOp ==
    \A r \in RegistrationIds :
        ReadEqualsDesired(r) =>
            /\ registrations[r].identify = << >>
            /\ registrations[r].permission = "none"
            /\ registrations[r].after = registrations[r].before
            /\ Some(registrations[r].before) = registrations[r].userID

\* C13 witness: register(7) found the identity "7"
C13_Witness ==
    \E r \in RegistrationIds :
        /\ ReadEqualsDesired(r)
        /\ registrations[r].notificationID = NumberID("7")

\* C14: a register call whose identity read answered with anything else has issued
\* identify exactly once, with the string of the desired ID, in the callback that made
\* the permission request, so in every state of that request: pending, enabled,
\* disabled or rejected.
C14_IdentifyOnceWhateverPermission ==
    \A r \in RegistrationIds :
        ReadDiffersFromDesired(r) =>
            /\ registrations[r].identify = <<toString(registrations[r].notificationID)>>
            /\ registrations[r].permission \in {"pending", "enabled", "disabled", "rejected"}
            /\ registrations[r].after = Some(toString(registrations[r].notificationID))

\* C14 witness: one registration has identified while its permission request is still
\* pending, another one's permission request was rejected
C14_Witness ==
    \E r, q \in RegistrationIds :
        /\ ReadDiffersFromDesired(r) /\ registrations[r].permission = "pending"
        /\ ReadDiffersFromDesired(q) /\ registrations[q].permission = "rejected"

\* C15: a register call whose identity read failed made no permission request and no
\* identify call and left the SDK identity as it was; no register call reads the
\* identity a second time, and a failed read is not pending again.
C15_ReadFailureAbandons ==
    \A r \in RegistrationIds :
        /\ registrations[r].reads = 1
        /\ (\E i \in 1..Len(namedUserReads) : namedUserReads[i] = r)
               <=> registrations[r].read = "pending"
        /\ registrations[r].read = "rejected" =>
               /\ registrations[r].identify = << >>
               /\ registrations[r].permission = "none"
               /\ registrations[r].userID = None
               /\ registrations[r].after = registrations[r].before

\* C15 witness: the read of a register call failed while the SDK held another identity
C15_Witness ==
    \E r \in RegistrationIds :
        /\ registrations[r].read = "rejected"
        /\ registrations[r].before # None
        /\ registrations[r].before # Some(toString(registrations[r].notificationID))

\* C16: every deregister call, whatever the identity before it and however its own
\* identity read ends, leaves the SDK without identity, no listener for either event
\* type, and the foreground display override at not-show.
C16_DeregisterResets ==
    \A d \in DeregistrationIds :
        /\ deregistrations[d].after.namedUserId = None
        /\ \A e \in EventType : deregistrations[d].after.listeners[e] = 0
        /\ deregistrations[d].after.foregroundDisplay = "hide"

\* C16 witness: a deregister call found an identity, listeners and the override at
\* show, and its own identity read failed
C16_Witness ==
    \E d \in DeregistrationIds :
        /\ deregistrations[d].before.namedUserId # None
        /\ deregistrations[d].before.listeners[PushReceived] > 0
        /\ deregistrations[d].before.foregroundDisplay = "show"
        /\ deregistrations[d].read = "rejected"

Deregistered(st) ==
    /\ st.namedUserId = None
    /\ \A e \in EventType : st.listeners[e] = 0
    /\ st.foregroundDisplay = "hide"

\* C17: a deregister call leaves the dispatch table as it was; made in the state a
\* deregister call leaves (identity reset, no listeners, override off), it leaves that
\* very state.
C17_DeregisterIdempotent ==
    \A d \in DeregistrationIds :
        /\ deregistrations[d].after.notificationEventActionMap =
               deregistrations[d].before.notificationEventActionMap
        /\ Deregistered(deregistrations[d].before) =>
               deregistrations[d].after = deregistrations[d].before

\* C17 witness: two deregister calls in a row, with handlers bound
C17_Witness ==
    \E d \in DeregistrationIds :
        /\ d > 1
        /\ deregistrations[d].before = deregistrations[d - 1].after
        /\ Deregistered(deregistrations[d].before)
        /\ deregistrations[d].before.notificationEventActionMap # EmptyMap

DeliveryIds == 1..Len(deliveries)

\* C18: decoding an undefined payload yields no data and runs no stage of either
\* string path; the listeners call nothing.
C18_UndefinedIsNoData ==
    \A e \in DeliveryIds :
        deliveries[e].payload.tag = "undefined" =>
            /\ deliveries[e].decoded = [value |-> None, stages |-> << >>]
            /\ CallsOfEvent(e) = {}

\* C18 witness: an undefined payload reached a listener
C18_Witness ==
    \E e \in DeliveryIds :
        /\ deliveries[e].payload = UndefinedPayload
        /\ Len(deliveries[e].rets) >= 1

\* C19: decoding a payload that is not a string yields that very value, every field as
\* it was, and runs no stage of either string path.
C19_ObjectUnchanged ==
    \A e \in DeliveryIds :
        deliveries[e].payload.tag = "object" =>
            deliveries[e].decoded = [value |-> Some(deliveries[e].payload.object), stages |-> << >>]

\* C19 witness: an object payload with absent fields was decoded and dispatched
C19_Witness ==
    \E e \in DeliveryIds :
        /\ deliveries[e].payload = ObjectPayload(CommentData)
        /\ CommentData.hasPendingOnyxUpdates = None
        /\ CallsOfEvent(e) # {}

GzipSucceeds(p) == p.atob = "gzip" /\ p.inflate = "text" /\ p.inflatedJson # None

\* the stages of the gzip path the string p passes or fails at, from p alone
ExpectedGzipStages(p) ==
    CASE p.atob = "throws" -> <<"atob">>
      [] p.atob = "bytes" -> <<"atob", "magic">>
      [] p.atob = "gzip" /\ p.inflate = "throws" -> <<"atob", "magic", "inflate">>
      [] OTHER -> <<"atob", "magic", "inflate", "JSON.parse(decompressed)">>

\* C20: decoding a string runs atob, the magic number test, inflate and JSON.parse of the
\* inflated text in this order; when all succeed the parsed value is the result and the
\* string itself is never parsed; when one fails, the stages after it are skipped, the
\* string is parsed as JSON, and that value (no data when this fails too) is the result.
C20_GzipThenPlainJson ==
    \A e \in DeliveryIds :
        LET p == deliveries[e].payload
        IN  p.tag = "string" =>
                IF GzipSucceeds(p)
                THEN deliveries[e].decoded =
                         [value |-> p.inflatedJson, stages |-> ExpectedGzipStages(p)]
                ELSE deliveries[e].decoded =
                         [value |-> p.plainJson,
                          stages |-> ExpectedGzipStages(p) \o <<"JSON.parse(payload)">>]

\* C20 witness: a base64 string without the magic number was parsed as plain JSON
C20_Witness ==
    \E e \in DeliveryIds :
        /\ deliveries[e].payload.atob = "bytes"
        /\ deliveries[e].payload.plainJson # None
        /\ deliveries[e].decoded.value = deliveries[e].payload.plainJson

\* C21: decoding a string that neither path can parse yields no data, whichever stage of
\* the gzip path failed; the listeners then call nothing and return undefined.
C21_BothPathsFailNoData ==
    \A e \in DeliveryIds :
        LET p == deliveries[e].payload
        IN  (p.tag = "string" /\ ~GzipSucceeds(p) /\ p.plainJson = None) =>
                /\ deliveries[e].decoded.value = None
                /\ CallsOfEvent(e) = {}
                /\ \A i \in 1..Len(deliveries[e].rets) : deliveries[e].rets[i] = None

\* C21 witness: a corrupt gzip stream reached a listener
C21_Witness ==
    \E e \in DeliveryIds :
        /\ deliveries[e].payload = CorruptGzipPayload
        /\ Len(deliveries[e].rets) >= 1

NavigatorCalls == {c \in CallIds : calls[c].handler = "navigateToReport"}

\* positions of the calls of an operation among the collaborator calls made
Made(c, op) == {k \in 1..Len(calls[c].nav.calls) : calls[c].nav.calls[k].op = op}

\* C22: a navigator whose body ran while isSingleNewDotEntry was true made no collaborator
\* call at all, so no go-back and no navigate, recorded no last-visited path, and left
\* the stack as it was.
C22_SkipWhenSingleNewDotEntry ==
    \A c \in NavigatorCalls :
        (calls[c].nav.bodyRuns > 0 /\ calls[c].nav.flag = Some(TRUE)) =>
            /\ calls[c].nav.calls = << >>
            /\ calls[c].nav.after = calls[c].nav.before

\* C22 witness: the flag was set after the notification was selected and the body then
\* ran on a stack with another report on top
C22_Witness ==
    \E c \in NavigatorCalls :
        /\ calls[c].nav.bodyRuns = 1
        /\ calls[c].nav.flag = Some(TRUE)
        /\ getActiveRoute(calls[c].nav.before[1]) = ReportRoute(8)

\* C23: until the routes-ready signal of a run has fired, the run has requested no
\* overlay close and made no collaborator call; once it has fired, the overlay close has
\* been requested exactly once, before the body and also when the body skips.
C23_RoutesReadyThenClose ==
    \A c \in NavigatorCalls :
        /\ ~calls[c].nav.routesReady =>
               /\ calls[c].nav.closeRequests = 0
               /\ calls[c].nav.bodyRuns = 0
               /\ calls[c].nav.calls = << >>
        /\ calls[c].nav.routesReady => calls[c].nav.closeRequests = 1
        /\ calls[c].nav.bodyRuns > 0 => calls[c].nav.routesReady

\* C23 witness: a run that skipped had requested the overlay close
C23_Witness ==
    \E c \in NavigatorCalls :
        /\ calls[c].nav.skipped
        /\ calls[c].nav.closeRequests = 1

\* C24: whichever collaborator call of the body throws, the throw is caught in the body,
\* the run is over, and the promise navigateToReport returned is resolved, as it is in
\* every state of every run.
C24_NavigationFailureCaught ==
    \A c \in NavigatorCalls :
        /\ calls[c].promise = "resolved"
        /\ calls[c].nav.thrownBy # "none" => (calls[c].nav.caught /\ calls[c].pc = "done")

\* C24 witness: navigate threw after a go-back had been made
C24_Witness ==
    \E c \in NavigatorCalls :
        /\ calls[c].nav.thrownBy = "navigate"
        /\ Made(c, "goBack") # {}

\* C25: in a run that did not skip, every go-back is made on a transition screen or on
\* another report's screen and before the navigate; there is at most one navigate, to
\* the target report, with a back-to route (the active one) exactly when the target is
\* not the active route; the last-visited path is recorded only after a navigate that
\* did not throw, and is recorded whenever nothing threw.
C25_NavigationOrder ==
    \A c \in NavigatorCalls :
        LET made == calls[c].nav.calls
            target == ReportRoute(calls[c].data.reportID[1])
        IN  (calls[c].nav.bodyRuns > 0 /\ ~calls[c].nav.skipped) =>
                /\ \A g \in Made(c, "goBack") :
                       /\ \/ made[g].active.screen = "transition"
                          \/ (made[g].active.screen = "report" /\ made[g].active # target)
                       /\ \A n \in Made(c, "navigate") : g < n
                /\ Cardinality(Made(c, "navigate")) <= 1
                /\ \A n \in Made(c, "navigate") :
                       /\ made[n].route = Some(target)
                       /\ made[n].backTo =
                              (IF made[n].active = target THEN None ELSE Some(made[n].active))
                /\ \A u \in Made(c, "updateLastVisitedPath") :
                       /\ \E n \in Made(c, "navigate") : n < u
                       /\ calls[c].nav.thrownBy # "navigate"
                       /\ made[u].route = Some(target)
                /\ calls[c].nav.thrownBy = "none" =>
                       /\ Cardinality(Made(c, "navigate")) = 1
                       /\ Cardinality(Made(c, "updateLastVisitedPath")) = 1
                       /\ lastVisitedPath = Some(target)

\* C25 witness: a run popped the transition screen and another report's screen, then
\* navigated with a back-to route and recorded the path
C25_Witness ==
    \E c \in NavigatorCalls :
        /\ Cardinality(Made(c, "goBack")) = 2
        /\ \E n \in Made(c, "navigate") : calls[c].nav.calls[n].backTo = Some(HomeRoute)
        /\ Made(c, "updateLastVisitedPath") # {}

\* C26: a dispatch, handler found or not, leaves the handler bound to every
\* (event, type) pair as it was, and on the table it leaves every other dispatch
\* invokes the handler it would have invoked without it, so dispatches in any
\* order invoke the same handlers as one after another.
C26_DispatchLeavesTable ==
    [][nEvents' = nEvents + 1 =>
        /\ \A e \in EventType, t \in PayloadTypes :
               lookup(notificationEventActionMap', e, t) = lookup(notificationEventActionMap, e, t)
        /\ \A e \in EventType, p \in GatewayPayloads :
               pushNotificationEventCallback(notificationEventActionMap', e, p)
               = pushNotificationEventCallback(notificationEventActionMap, e, p)]_vars

\* a dispatch found a handler and invoked it, and the pair is still bound to it
C26_Witness ==
    \E d \in DeliveryIds :
        LET r == pushNotificationEventCallback(notificationEventActionMap,
                                               deliveries[d].eventType, deliveries[d].payload)
        IN  /\ Len(deliveries[d].rets) > 0
            /\ deliveries[d].rets[1] # None
            /\ r.invoke
            /\ r.action = deliveries[d].bound[<<deliveries[d].eventType, r.data.type[1]>>]

\* C27: under every operation a bound (event, type) pair stays bound; binds add
\* or overwrite, deregister() and clearNotifications() remove nothing.
C27_TableOnlyGrows ==
    [][\A e \in EventType, t \in PayloadTypes :
          lookup(notificationEventActionMap, e, t) # None
              => lookup(notificationEventActionMap', e, t) # None]_vars

\* after a sign-out (deregister and clearNotifications) the six handlers are still bound
C27_Witness ==
    /\ Len(deregistrations) > 0
    /\ pushNotificationID = Some(StringID(""))
    /\ \A e \in EventType, t \in NotificationType :
           lookup(notificationEventActionMap, e, t) # None

RequestIds == 1..Len(requests)

\* C28: a cancelPendingRequests() with the default command All aborts every request
\* in flight that was sent with canCancel, whatever its command.
C28_CancelAllAbortsEveryCancellable ==
    [][abortControllerMap'[ALL] # abortControllerMap[ALL] =>
        \A r \in RequestIds :
            (requests[r].pc = "inflight" /\ requests[r].canCancel)
                => requests'[r].outcome = "AbortError"]_vars

\* C29: every controller stored in the map is un-aborted and every controller no
\* longer stored is aborted, and no request is rejected at its start by a cancel
\* made before it.
C29_StoredControllersFresh ==
    /\ \A i \in 1..Len(controllers) :
           controllers[i] <=> ~(\E command \in DOMAIN abortControllerMap :
                                   abortControllerMap[command] = i)
    /\ \A r \in RequestIds : requests[r].outcome # "AbortErrorAtSend"

\* a cancellable request sent after MaxCancels cancels, on the controller the last of
\* them created, got its answer
C29_Witness ==
    /\ Len(controllers) = Cardinality(AbortCommands) + MaxCancels
    /\ \E r \in RequestIds :
           /\ requests[r].canCancel
           /\ requests[r].signal = Some(Len(controllers))
           /\ requests[r].outcome = "json"

\* C30: a response that arrives while shouldFailAllRequests or shouldForceOffline is
\* set rejects with FAILED_TO_FETCH whatever its status, also when the flag was set
\* after the request was sent.
C30_FailAllTakesPrecedence ==
    \A r \in RequestIds :
        (requests[r].status # "none" /\ requests[r].flagAtResponse)
            => requests[r].outcome = "FAILED_TO_FETCH"

\* sent with both flags clear, answered OK while a flag was set, rejected
C30_Witness ==
    \E r \in RequestIds :
        /\ ~requests[r].flagAtSend
        /\ requests[r].flagAtResponse
        /\ requests[r].status = "OK"
        /\ requests[r].outcome = "FAILED_TO_FETCH"

\* the most recent of the register() and deregister() calls is a deregister()
LastCallIsDeregister ==
    /\ Len(deregistrations) > 0
    /\ deregistrations[Len(deregistrations)].registered = Len(registrations)

\* C31: once every identity read has been answered, the SDK identity is the ID of the
\* last register() call, or is reset when the last call was deregister().
C31_IdentityReflectsLastCall ==
    ( /\ ManagerCalls > 0
      /\ namedUserReads = << >>
      /\ \A r \in 1..Len(registrations) : registrations[r].read = "resolved" )
    => IF LastCallIsDeregister
       THEN namedUserId = None
       ELSE namedUserId = Some(toString(registrations[Len(registrations)].notificationID))

\* C32: the promise navigateToReport returns is not resolved before its navigation
\* attempt is over, that is before the routes-ready wait, the overlay close and the
\* navigate or skip have completed.
C32_ResolvedOnlyWhenNavigated ==
    \A c \in NavigatorCalls :
        calls[c].promise = "resolved"
            => (calls[c].nav.routesReady /\ calls[c].nav.bodyRuns > 0 /\ calls[c].pc = "done")

\* C33: an applyOnyxData call that abandons for a missing field, on either path, reads
\* no persisted state, calls the collaborator never, sends no finish signal and runs
\* neither branch; the promise it returned is resolved.
C33_AbandonDoesNothing ==
    \A c \in ApplierCalls :
        calls[c].updates = None =>
            /\ calls[c].readFromStore = None
            /\ calls[c].clientLastUpdateID = None
            /\ calls[c].forwarded = << >>
            /\ ~calls[c].collabSettled
            /\ calls[c].finishCalls = 0
            /\ calls[c].branches = << >>
            /\ calls[c].promise = "resolved"

\* an inline call without onyxData abandoned, and the store was written afterwards
C33_Witness ==
    \E c \in ApplierCalls :
        /\ ~HasPending(calls[c].data)
        /\ calls[c].data.lastUpdateID # None
        /\ calls[c].data.previousUpdateID # None
        /\ calls[c].data.onyxData = None
        /\ calls[c].updates = None
        /\ lastUpdateIDStore # None

\* C34: no applyOnyxData call makes the bridge's finish call more than once, also
\* when that call throws or rejects in the success branch.
C34_FinishAtMostOnce ==
    \A c \in ApplierCalls : calls[c].finishCalls <= 1

\* C35: a required ID equal to 0 counts as missing (lastUpdateID on either path,
\* previousUpdateID on the inline path): the call is resolved without a collaborator
\* call; an empty onyxData counts as present and is forwarded as one batch with no
\* entries.
C35_TruthinessOfRequiredFields ==
    \A c \in ApplierCalls :
        LET data == calls[c].data
        IN  /\ (data.lastUpdateID = Some(0) \/ (~HasPending(data) /\ data.previousUpdateID = Some(0)))
                   => /\ calls[c].updates = None
                      /\ calls[c].forwarded = << >>
                      /\ calls[c].promise = "resolved"
            /\ (~HasPending(data) /\ AllTruthy(data) /\ data.onyxData = Some(<< >>))
                   => /\ calls[c].updates # None
                      /\ calls[c].updates[1].updates = <<[eventType |-> "", data |-> << >>]>>
                      /\ ReadAnswered(c) =>
                             /\ Len(calls[c].forwarded) = 1
                             /\ calls[c].forwarded[1].updates.updates
                                    = <<[eventType |-> "", data |-> << >>]>>

\* an inline call with both IDs set and an empty onyxData forwarded its one empty batch
C35_Witness ==
    \E c \in ApplierCalls :
        /\ ~HasPending(calls[c].data)
        /\ AllTruthy(calls[c].data)
        /\ calls[c].data.onyxData = Some(<< >>)
        /\ Len(calls[c].forwarded) = 1
        /\ calls[c].forwarded[1].updates.updates = <<[eventType |-> "", data |-> << >>]>>

\* C36 as stated: once the flag is true it stays true until the store delivers a
\* non-empty value whose flag is false.
C36_TrueUntilFalseDelivered ==
    [][(isSingleNewDotEntry = Some(TRUE) /\ isSingleNewDotEntry' # Some(TRUE))
          => (hybridApp' # None /\ hybridApp'[1] = Some(FALSE))]_vars

\* C36 amended: the flag changes only when the store delivers a non-empty value and
\* then takes that value's isSingleNewDotEntry field, undefined when the value has
\* none; a cleared value leaves it as it was; a navigation body is skipped exactly
\* when the flag is true as it runs, so after the flag was true navigations are
\* skipped until a non-empty value with the flag false or absent is delivered.
C36_FlagFollowsNonEmptyValues ==
    [][/\ isSingleNewDotEntry' =
              IF hybridApp' # hybridApp /\ hybridApp' # None THEN hybridApp'[1]
              ELSE isSingleNewDotEntry
       /\ \A c \in NavigatorCalls :
              calls'[c].nav.bodyRuns > calls[c].nav.bodyRuns
                  => /\ calls'[c].nav.skipped <=> isSingleNewDotEntry = Some(TRUE)
                     /\ isSingleNewDotEntry = Some(TRUE) => navigationStack' = navigationStack]_vars

\* the flag was set, the value was cleared afterwards, and a navigation that ran then
\* was skipped
C36_Witness ==
    /\ hybridApp = None
    /\ isSingleNewDotEntry = Some(TRUE)
    /\ \E c \in NavigatorCalls :
           /\ calls[c].nav.bodyRuns > 0
           /\ calls[c].nav.skipped
           /\ calls[c].nav.calls = << >>

\* C37: the controller of a cancellable request is chosen when its payload
\* preparation resolves: a cancel made while the request is being prepared leaves it
\* untouched, and the request is then sent on the controller that cancel installed,
\* never on the aborted one.
C37_ControllerChosenAtSend ==
    \A r \in RequestIds :
        /\ requests[r].pc = "preparing"
               => (requests[r].outcome = "pending" /\ requests[r].signal = None)
        /\ (requests[r].pc # "preparing" /\ requests[r].canCancel) =>
               /\ requests[r].signal # None
               /\ requests[r].outcome # "AbortErrorAtSend"
               /\ requests[r].signal # requests[r].storedAtCall
                      => /\ controllers[requests[r].storedAtCall[1]]
                         /\ requests[r].signal[1] > requests[r].storedAtCall[1]
                         /\ requests[r].signal[1] > Cardinality(AbortCommands)

\* a cancellable request whose controller was cancelled while it was being prepared was
\* sent on the fresh controller and got its answer
C37_Witness ==
    \E r \in RequestIds :
        /\ requests[r].canCancel
        /\ requests[r].signal # None
        /\ requests[r].signal # requests[r].storedAtCall
        /\ controllers[requests[r].storedAtCall[1]]
        /\ ~controllers[requests[r].signal[1]]
        /\ requests[r].outcome = "json"

====
